---- MODULE Spec2Model ----
(***************************************************************************)
(* Service-request privilege pipeline of databricks_privileges:            *)
(* privilege taxonomy (abac/priviliges/priviliges.py), resource type       *)
(* resolution and request orchestration (privileges/apply_priviliges.py)   *)
(* grant reconciliation (privileges/grants/grants.py) and service request  *)
(* parsing (privileges/service_requests/parser.py).                        *)
(*                                                                         *)
(* Python strings are sequences of one-character strings, so that upper(), *)
(* lower(), split(".") and startswith("/") are computed, not assumed.      *)
(***************************************************************************)
EXTENDS Integers, Sequences, FiniteSets, TLC

\* ------------------------------------------------------------ Python values
\* A Python value held in a str-typed field: a str, or (the parser does not
\* check the types of the YAML scalars it copies) an int.
PyStr(cs) == [tag |-> "str", chars |-> cs, n |-> 0]
PyInt(k) == [tag |-> "int", chars |-> <<>>, n |-> k]

\* Truth value of a Python value (`if not x`).
Truthy(v) == IF v.tag = "str" THEN v.chars # <<>> ELSE v.n # 0

\* The outcome of a call: a returned value, or an exception in flight.
Returns(v) == [exc |-> "None", val |-> v]
Raises(e) == [exc |-> e, val |-> FALSE]

LowerLetters == <<"a","b","c","d","e","f","g","h","i","j","k","l","m",
                  "n","o","p","q","r","s","t","u","v","w","x","y","z">>
UpperLetters == <<"A","B","C","D","E","F","G","H","I","J","K","L","M",
                  "N","O","P","Q","R","S","T","U","V","W","X","Y","Z">>

\* The upper-case letter of each lower-case letter, and the converse.
UpperOf ==
    [c \in {LowerLetters[k] : k \in 1..Len(LowerLetters)} |->
        UpperLetters[CHOOSE k \in 1..Len(LowerLetters) : LowerLetters[k] = c]]
LowerOf ==
    [c \in {UpperLetters[k] : k \in 1..Len(UpperLetters)} |->
        LowerLetters[CHOOSE k \in 1..Len(UpperLetters) : UpperLetters[k] = c]]

UpperChar(c) == IF c \in DOMAIN UpperOf THEN UpperOf[c] ELSE c
LowerChar(c) == IF c \in DOMAIN LowerOf THEN LowerOf[c] ELSE c

\* str.upper() and str.lower()
upper(cs) == [k \in 1..Len(cs) |-> UpperChar(cs[k])]
lower(cs) == [k \in 1..Len(cs) |-> LowerChar(cs[k])]

\* str.startswith(prefix)
startswith(cs, prefix) ==
    /\ Len(cs) >= Len(prefix)
    /\ SubSeq(cs, 1, Len(prefix)) = prefix

\* str.split(sep) for a one-character separator: the pieces between the
\* separators, empty pieces kept, so the result has (separators + 1) parts.
RECURSIVE SplitFrom(_, _, _)
SplitFrom(cs, sep, cur) ==
    IF cs = <<>> THEN <<cur>>
    ELSE IF Head(cs) = sep THEN <<cur>> \o SplitFrom(Tail(cs), sep, <<>>)
    ELSE SplitFrom(Tail(cs), sep, Append(cur, Head(cs)))
split(cs, sep) == SplitFrom(cs, sep, <<>>)

\* dict.get(key, default) on a dict literal written as its (key, value) pairs
\* in source order: a repeated key keeps the last value.
DictGet(pairs, key, default) ==
    IF \E k \in 1..Len(pairs) : pairs[k][1] = key
    THEN pairs[CHOOSE k \in 1..Len(pairs) :
                 /\ pairs[k][1] = key
                 /\ \A m \in (k+1)..Len(pairs) : pairs[m][1] # key][2]
    ELSE default

\* ------------------------------------------------- databricks.sdk Privilege
\* Members of the SDK's Privilege enum, each identified by its name.  The
\* taxonomy names the first 25; MANAGE and BROWSE are members no legal set
\* of the taxonomy lists.
USE_CATALOG == <<"U","S","E","_","C","A","T","A","L","O","G">>
CREATE_SCHEMA == <<"C","R","E","A","T","E","_","S","C","H","E","M","A">>
CREATE_TABLE == <<"C","R","E","A","T","E","_","T","A","B","L","E">>
CREATE_VOLUME == <<"C","R","E","A","T","E","_","V","O","L","U","M","E">>
CREATE_FUNCTION == <<"C","R","E","A","T","E","_","F","U","N","C","T","I","O","N">>
CREATE_MODEL == <<"C","R","E","A","T","E","_","M","O","D","E","L">>
CREATE_EXTERNAL_TABLE == <<"C","R","E","A","T","E","_","E","X","T","E","R","N","A","L","_","T","A","B","L","E">>
CREATE_EXTERNAL_VOLUME == <<"C","R","E","A","T","E","_","E","X","T","E","R","N","A","L","_","V","O","L","U","M","E">>
CREATE_MATERIALIZED_VIEW == <<"C","R","E","A","T","E","_","M","A","T","E","R","I","A","L","I","Z","E","D","_","V","I","E","W">>
ALL_PRIVILEGES == <<"A","L","L","_","P","R","I","V","I","L","E","G","E","S">>
USE_SCHEMA == <<"U","S","E","_","S","C","H","E","M","A">>
CREATE_VIEW == <<"C","R","E","A","T","E","_","V","I","E","W">>
MODIFY == <<"M","O","D","I","F","Y">>
SELECT == <<"S","E","L","E","C","T">>
APPLY_TAG == <<"A","P","P","L","Y","_","T","A","G">>
EXECUTE == <<"E","X","E","C","U","T","E">>
READ_VOLUME == <<"R","E","A","D","_","V","O","L","U","M","E">>
WRITE_VOLUME == <<"W","R","I","T","E","_","V","O","L","U","M","E">>
READ_FILES == <<"R","E","A","D","_","F","I","L","E","S">>
WRITE_FILES == <<"W","R","I","T","E","_","F","I","L","E","S">>
USE_CONNECTION == <<"U","S","E","_","C","O","N","N","E","C","T","I","O","N">>
USE_SHARE == <<"U","S","E","_","S","H","A","R","E">>
SET_SHARE_PERMISSION == <<"S","E","T","_","S","H","A","R","E","_","P","E","R","M","I","S","S","I","O","N">>
USE_PROVIDER == <<"U","S","E","_","P","R","O","V","I","D","E","R">>
USE_RECIPIENT == <<"U","S","E","_","R","E","C","I","P","I","E","N","T">>
MANAGE == <<"M","A","N","A","G","E">>
BROWSE == <<"B","R","O","W","S","E">>

\* Privilege[name]: the members, looked up by name (KeyError otherwise).
Privilege ==
    {USE_CATALOG, CREATE_SCHEMA, CREATE_TABLE, CREATE_VOLUME, CREATE_FUNCTION,
     CREATE_MODEL, CREATE_EXTERNAL_TABLE, CREATE_EXTERNAL_VOLUME,
     CREATE_MATERIALIZED_VIEW, ALL_PRIVILEGES, USE_SCHEMA, CREATE_VIEW, MODIFY,
     SELECT, APPLY_TAG, EXECUTE, READ_VOLUME, WRITE_VOLUME, READ_FILES,
     WRITE_FILES, USE_CONNECTION, USE_SHARE, SET_SHARE_PERMISSION,
     USE_PROVIDER, USE_RECIPIENT, MANAGE, BROWSE}

\* ---------------------------------------------------------------- ObjectType
\* A Python Enum member is identified by its value: a name bound to a value
\* an earlier member has is an alias of that member (VIEW and MODEL are TABLE).
CATALOG == "SecurableType.CATALOG"
SCHEMA == "SecurableType.SCHEMA"
TABLE == "SecurableType.TABLE"
VIEW == "SecurableType.TABLE"
FUNCTION == "SecurableType.FUNCTION"
VOLUME == "SecurableType.VOLUME"
MODEL == "SecurableType.TABLE"
PIPELINE == "SecurableType.PIPELINE"
CONNECTION == "SecurableType.CONNECTION"
CREDENTIAL == "SecurableType.CREDENTIAL"
EXTERNAL_LOCATION == "SecurableType.EXTERNAL_LOCATION"
STORAGE_CREDENTIAL == "SecurableType.STORAGE_CREDENTIAL"
SHARE == "SecurableType.SHARE"
RECIPIENT == "SecurableType.RECIPIENT"
PROVIDER == "SecurableType.PROVIDER"
CLEAN_ROOM == "SecurableType.CLEAN_ROOM"
METASTORE == "SecurableType.METASTORE"
UNKNOWN == "unknown"

ObjectType ==
    {CATALOG, SCHEMA, TABLE, VIEW, FUNCTION, VOLUME, MODEL, PIPELINE,
     CONNECTION, CREDENTIAL, EXTERNAL_LOCATION, STORAGE_CREDENTIAL, SHARE,
     RECIPIENT, PROVIDER, CLEAN_ROOM, METASTORE, UNKNOWN}

\* ----------------------------------------------------------- PrivilegeMapping
CATALOG_PRIVILEGES ==
    {USE_CATALOG, CREATE_SCHEMA, CREATE_TABLE, CREATE_VOLUME, CREATE_FUNCTION,
     CREATE_MODEL, CREATE_EXTERNAL_TABLE, CREATE_EXTERNAL_VOLUME,
     CREATE_MATERIALIZED_VIEW, ALL_PRIVILEGES}
SCHEMA_PRIVILEGES ==
    {USE_SCHEMA, CREATE_TABLE, CREATE_VIEW, CREATE_FUNCTION, CREATE_VOLUME,
     CREATE_MODEL, CREATE_EXTERNAL_TABLE, CREATE_EXTERNAL_VOLUME,
     CREATE_MATERIALIZED_VIEW, MODIFY, ALL_PRIVILEGES}
TABLE_PRIVILEGES == {SELECT, MODIFY, ALL_PRIVILEGES, APPLY_TAG}
FUNCTION_PRIVILEGES == {EXECUTE, ALL_PRIVILEGES, MODIFY}
VOLUME_PRIVILEGES ==
    {READ_VOLUME, WRITE_VOLUME, READ_FILES, WRITE_FILES, ALL_PRIVILEGES}
CONNECTION_PRIVILEGES == {USE_CONNECTION, ALL_PRIVILEGES}
EXTERNAL_LOCATION_PRIVILEGES ==
    {READ_FILES, WRITE_FILES, CREATE_EXTERNAL_TABLE, ALL_PRIVILEGES}
SHARE_PRIVILEGES == {USE_SHARE, SET_SHARE_PERMISSION, ALL_PRIVILEGES}
PROVIDER_PRIVILEGES == {USE_PROVIDER, ALL_PRIVILEGES}
RECIPIENT_PRIVILEGES == {USE_RECIPIENT, ALL_PRIVILEGES}

\* The dict literal of get_privileges_for_resource_type, in source order.
privilege_map ==
    << <<CATALOG, CATALOG_PRIVILEGES>>,
       <<SCHEMA, SCHEMA_PRIVILEGES>>,
       <<TABLE, TABLE_PRIVILEGES>>,
       <<VIEW, TABLE_PRIVILEGES>>,
       <<FUNCTION, FUNCTION_PRIVILEGES>>,
       <<VOLUME, VOLUME_PRIVILEGES>>,
       <<MODEL, TABLE_PRIVILEGES>>,
       <<CONNECTION, CONNECTION_PRIVILEGES>>,
       <<EXTERNAL_LOCATION, EXTERNAL_LOCATION_PRIVILEGES>>,
       <<SHARE, SHARE_PRIVILEGES>>,
       <<PROVIDER, PROVIDER_PRIVILEGES>>,
       <<RECIPIENT, RECIPIENT_PRIVILEGES>>,
       <<PIPELINE, {ALL_PRIVILEGES}>>,
       <<CREDENTIAL, {ALL_PRIVILEGES}>>,
       <<STORAGE_CREDENTIAL, {ALL_PRIVILEGES}>>,
       <<CLEAN_ROOM, {ALL_PRIVILEGES}>>,
       <<METASTORE, {ALL_PRIVILEGES}>>,
       <<UNKNOWN, {}>> >>

\* Mutation: the types mapped to ALL_PRIVILEGES alone are left out of the map.
get_privileges_unmapped_types(object_type) ==
    IF object_type \in {PIPELINE, CREDENTIAL, STORAGE_CREDENTIAL, CLEAN_ROOM,
                        METASTORE}
    THEN {}
    ELSE DictGet(privilege_map, object_type, {})

get_privileges_for_resource_type(object_type) ==
    DictGet(privilege_map, object_type, {})

\* Mutation: the update with VOLUME_PRIVILEGES is missing.
get_all_privileges_without_volume ==
    CATALOG_PRIVILEGES \cup SCHEMA_PRIVILEGES \cup TABLE_PRIVILEGES
        \cup FUNCTION_PRIVILEGES
        \cup CONNECTION_PRIVILEGES \cup EXTERNAL_LOCATION_PRIVILEGES
        \cup SHARE_PRIVILEGES \cup PROVIDER_PRIVILEGES
        \cup RECIPIENT_PRIVILEGES

get_all_privileges ==
    CATALOG_PRIVILEGES \cup SCHEMA_PRIVILEGES \cup TABLE_PRIVILEGES
        \cup FUNCTION_PRIVILEGES \cup VOLUME_PRIVILEGES
        \cup CONNECTION_PRIVILEGES \cup EXTERNAL_LOCATION_PRIVILEGES
        \cup SHARE_PRIVILEGES \cup PROVIDER_PRIVILEGES
        \cup RECIPIENT_PRIVILEGES

\* Mutation: Unknown is validated against its own (empty) legal set.
validate_privilege_unknown_rejects(privilege, object_type) ==
    IF privilege.tag # "str" THEN Raises("AttributeError")
    ELSE LET privilege_enum == upper(privilege.chars) IN
         IF privilege_enum \notin Privilege THEN Returns(FALSE)
         ELSE Returns(privilege_enum \in
                         get_privileges_for_resource_type(object_type))

\* Mutation: the member is looked up without upper().
validate_privilege_no_upper(privilege, object_type) ==
    IF privilege.tag # "str" THEN Raises("AttributeError")
    ELSE LET privilege_enum == privilege.chars IN
         IF privilege_enum \notin Privilege THEN Returns(FALSE)
         ELSE IF object_type # UNKNOWN
              THEN Returns(privilege_enum \in
                              get_privileges_for_resource_type(object_type))
              ELSE Returns(privilege_enum \in get_all_privileges)

\* PrivilegeMapping.validate_privilege (StandardPrivileges.validate_privilege
\* delegates to it).  privilege.upper() raises AttributeError when the value
\* is not a str; only KeyError is caught.
validate_privilege(privilege, object_type) ==
    IF privilege.tag # "str" THEN Raises("AttributeError")
    ELSE LET privilege_enum == upper(privilege.chars) IN
         IF privilege_enum \notin Privilege THEN Returns(FALSE)
         ELSE IF object_type # UNKNOWN
              THEN Returns(privilege_enum \in
                              get_privileges_for_resource_type(object_type))
              ELSE Returns(privilege_enum \in get_all_privileges)

\* ------------------------------------------------------------------- bounds
\* Longest resource path handed to the resolver on its own.
MaxPathLen == 5
\* Most items in one service request.
MaxItems == 2

\* -------------------------------------------------------------------- state
VARIABLES
    \* PrivilegeMapping.validate_privilege called on its own
    validate_call,
    \* determine_uc_object_type: its argument, its locals, where it stands
    object_path, parts, rpc, object_type,
    \* the catalog metadata collaborator: for each lookup API, whether the
    \* lookup of the name this call asks about succeeds (else it raises)
    metastore,
    \* every lookup issued, in order: [item, api, full_name]
    probes,
    \* ServiceRequestParser: the YAML content a service request is parsed from
    yaml_content,
    \* apply_service_request_privileges: arguments, locals, position
    service_request, dry_run, pc, i, is_add_operation, validation_results,
    \* items whose loop body was entered, in order; what the orchestrator
    \* logs: each item's validation outcome, errors caught, successes
    visited, validation_log, errors, successes,
    \* PrivilegeGrantManager.apply_multiple_privileges: arguments, locals
    grant_args, gpc, results,
    \* the grants collaborator: every grants.update call, and the grants held
    update_calls, grants,
    \* ServiceRequestParser called on its own: which method returned last,
    \* and its outcome
    parser_call,
    \* GitHubIntegration.get_changed_files_from_env: the process environment,
    \* what each git command would do, every command run, position, the
    \* branch references still to try, the list returned
    environ, git_repo, git_calls, ghpc, branch_refs, changed_files

resolver_vars == <<object_path, parts, rpc, object_type, metastore, probes>>
orchestrator_vars ==
    <<yaml_content, service_request, dry_run, pc, i, is_add_operation, validation_results,
      visited, validation_log, errors, successes>>
reconciler_vars == <<grant_args, gpc, results, update_calls, grants>>
parser_vars == <<parser_call>>
github_vars == <<environ, git_repo, git_calls, ghpc, branch_refs, changed_files>>
vars ==
    <<validate_call, resolver_vars, orchestrator_vars, reconciler_vars,
      parser_vars, github_vars>>

\* ------------------------------------------------- determine_uc_object_type
\* Lookup APIs of the workspace client the resolver probes.
ProbeApis ==
    {"catalogs.get", "schemas.get", "tables.get", "volumes.read",
     "functions.get"}

\* "a.b": the f-string joining parts with dots.
RECURSIVE Dotted(_)
Dotted(ps) ==
    IF Len(ps) = 0 THEN <<>>
    ELSE IF Len(ps) = 1 THEN ps[1]
    ELSE ps[1] \o <<".">> \o Dotted(Tail(ps))

\* Mutation: no outer handler, the exception leaves the resolver.
resolve_except_reraise(e) == Raises(e)

\* `except Exception as e:` of line 89: every exception degrades to UNKNOWN.
resolve_except(e) == Returns(UNKNOWN)

\* The branch on len(parts) (lines 41, 52, 60, 86): where resolution goes.
branch_on_parts(ps) ==
    IF Len(ps) = 1 THEN "probe_catalog"
    ELSE IF Len(ps) = 2 THEN "probe_schema"
    ELSE IF Len(ps) = 3 THEN "probe_table"
    ELSE "returned"

\* Mutation: a failed catalog probe is Unknown whatever the path.
catalog_probe_failed_no_slash(path) == UNKNOWN

\* The except branch of the catalog probe (lines 46-50).
catalog_probe_failed(path) ==
    IF startswith(path.chars, <<"/">>) THEN VOLUME ELSE UNKNOWN

\* Mutation: the `return ObjectType.TABLE` is missing, so a table falls
\* through to the volume probe.
leaf_probe_step_no_return(at, ok) ==
    IF at = "probe_table"
    THEN [rpc |-> "probe_volume", object_type |-> "unbound"]
    ELSE IF at = "probe_volume"
    THEN IF ok THEN [rpc |-> "returned", object_type |-> VOLUME]
         ELSE [rpc |-> "probe_function", object_type |-> "unbound"]
    ELSE IF ok THEN [rpc |-> "returned", object_type |-> FUNCTION]
         ELSE [rpc |-> "returned", object_type |-> UNKNOWN]

\* The three leaf probes (lines 63-84): after probe `at` succeeded or failed,
\* where resolution stands and what it returns.
leaf_probe_step(at, ok) ==
    IF at = "probe_table"
    THEN IF ok THEN [rpc |-> "returned", object_type |-> TABLE]
         ELSE [rpc |-> "probe_volume", object_type |-> "unbound"]
    ELSE IF at = "probe_volume"
    THEN IF ok THEN [rpc |-> "returned", object_type |-> VOLUME]
         ELSE [rpc |-> "probe_function", object_type |-> "unbound"]
    ELSE IF ok THEN [rpc |-> "returned", object_type |-> FUNCTION]
         ELSE [rpc |-> "returned", object_type |-> UNKNOWN]

NoMetastore == [a \in ProbeApis |-> FALSE]

\* The lookups a path of these parts can reach (lines 44, 55, 65-79).
ReachableApis(ps) ==
    IF Len(ps) = 1 THEN {"catalogs.get"}
    ELSE IF Len(ps) = 2 THEN {"schemas.get"}
    ELSE IF Len(ps) = 3 THEN {"tables.get", "volumes.read", "functions.get"}
    ELSE {}
\* The collaborator's answers for one call: any answer for each lookup the
\* path can reach (the answers of the others are never read).
Metastores(ps) ==
    {m \in [ProbeApis -> BOOLEAN] : \A a \in ProbeApis \ ReachableApis(ps) : ~m[a]}

\* The item the resolver is working for (0: called on its own).
CurrentItem == IF pc = "resolve" THEN i ELSE 0

Probe(api, name) == [item |-> CurrentItem, api |-> api, full_name |-> name]

\* line 32: `if not object_path: return ObjectType.UNKNOWN`
ResolveEntry ==
    /\ rpc = "entry"
    /\ IF ~Truthy(object_path)
       THEN /\ rpc' = "returned"
            /\ object_type' = UNKNOWN
       ELSE /\ rpc' = "split"
            /\ UNCHANGED object_type
    /\ UNCHANGED <<object_path, parts, metastore, probes>>
    /\ UNCHANGED <<parser_vars, github_vars, validate_call, orchestrator_vars, reconciler_vars>>

\* lines 35-41, 86-91: split the path and branch on the number of parts.  A
\* path that is not a str has no split(): the AttributeError is raised inside
\* the try and handled at line 89.
ResolveSplit ==
    /\ rpc = "split"
    /\ IF object_path.tag # "str"
       THEN LET out == resolve_except("AttributeError") IN
            /\ rpc' = IF out.exc = "None" THEN "returned" ELSE "raised"
            /\ object_type' = IF out.exc = "None" THEN out.val ELSE object_type
            /\ UNCHANGED <<parts, metastore>>
       ELSE LET ps == split(object_path.chars, ".") IN
            /\ parts' = ps
            /\ rpc' = branch_on_parts(ps)
            /\ IF branch_on_parts(ps) = "returned"
               THEN /\ object_type' = UNKNOWN
                    /\ UNCHANGED metastore
               ELSE /\ UNCHANGED object_type
                    /\ \E m \in Metastores(ps) : metastore' = m
    /\ UNCHANGED <<object_path, probes>>
    /\ UNCHANGED <<parser_vars, github_vars, validate_call, orchestrator_vars, reconciler_vars>>

\* lines 43-50: workspace_client.catalogs.get(parts[0])
ProbeCatalog ==
    /\ rpc = "probe_catalog"
    /\ probes' = Append(probes, Probe("catalogs.get", parts[1]))
    /\ rpc' = "returned"
    /\ object_type' = IF metastore["catalogs.get"] THEN CATALOG
                      ELSE catalog_probe_failed(object_path)
    /\ UNCHANGED <<object_path, parts, metastore>>
    /\ UNCHANGED <<parser_vars, github_vars, validate_call, orchestrator_vars, reconciler_vars>>

\* lines 54-58: workspace_client.schemas.get(f"{parts[0]}.{parts[1]}")
ProbeSchema ==
    /\ rpc = "probe_schema"
    /\ probes' = Append(probes, Probe("schemas.get", Dotted(<<parts[1], parts[2]>>)))
    /\ rpc' = "returned"
    /\ object_type' = IF metastore["schemas.get"] THEN SCHEMA ELSE UNKNOWN
    /\ UNCHANGED <<object_path, parts, metastore>>
    /\ UNCHANGED <<parser_vars, github_vars, validate_call, orchestrator_vars, reconciler_vars>>

\* One leaf probe at position `at`: the lookup is issued on the full name,
\* and resolution returns the type or moves on to the next probe.
LeafProbe(at, api) ==
    /\ probes' = Append(probes, Probe(api, Dotted(parts)))
    /\ LET nxt == leaf_probe_step(at, metastore[api]) IN
       /\ rpc' = nxt.rpc
       /\ object_type' = IF nxt.rpc = "returned" THEN nxt.object_type
                         ELSE object_type
    /\ UNCHANGED <<object_path, parts, metastore>>
    /\ UNCHANGED <<parser_vars, github_vars, validate_call, orchestrator_vars, reconciler_vars>>

\* lines 64-68: workspace_client.tables.get(...)
ProbeTable ==
    /\ rpc = "probe_table"
    /\ LeafProbe("probe_table", "tables.get")
\* lines 71-75: workspace_client.volumes.read(...)
ProbeVolume ==
    /\ rpc = "probe_volume"
    /\ LeafProbe("probe_volume", "volumes.read")
\* lines 78-84: workspace_client.functions.get(...)
ProbeFunction ==
    /\ rpc = "probe_function"
    /\ LeafProbe("probe_function", "functions.get")

Resolve ==
    \/ ResolveEntry
    \/ ResolveSplit
    \/ ProbeCatalog
    \/ ProbeSchema
    \/ ProbeTable
    \/ ProbeVolume
    \/ ProbeFunction

\* --------------------------------------------------------- idle frame values
IdleValidate ==
    [state |-> "idle", privilege |-> PyStr(<<>>), object_type |-> UNKNOWN,
     result |-> Returns(FALSE)]
\* YAML values.  A scalar is a PyStr or a PyInt; a sequence and a mapping
\* carry their items and their (key, value) pairs in document order.
YList(items) == [tag |-> "list", items |-> items]
YDict(pairs) == [tag |-> "dict", pairs |-> pairs]
NoDocument == YDict(<<>>)
NoRequest ==
    [name |-> PyStr(<<>>), request_type |-> PyStr(<<>>),
     request_status |-> PyStr(<<>>), requests |-> <<>>]
NoValidation == [valid_privileges |-> <<>>, invalid_privileges |-> <<>>]
NoGrantArgs ==
    [resource_name |-> PyStr(<<>>), object_type |-> UNKNOWN, principal |-> "",
     privileges |-> <<>>, is_add |-> FALSE]
\* Grants the collaborator holds before the run: (securable type, full name,
\* principal, privilege).
InitialGrants ==
    {<<"table", PyStr(<<"c",".","s",".","t">>), "u1", SELECT>>}

NoRepository ==
    [diff_ok |-> {}, stdout |-> <<>>, ls_files_ok |-> FALSE,
     ls_files_stdout |-> <<>>]

ParserIdle == parser_call = [state |-> "idle", result |-> Returns(FALSE)]

GitHubIdle ==
    /\ environ = <<>>
    /\ git_repo = NoRepository
    /\ git_calls = <<>>
    /\ ghpc = "idle"
    /\ branch_refs = <<>>
    /\ changed_files = <<>>

ResolverIdle ==
    /\ object_path = PyStr(<<>>)
    /\ parts = <<>>
    /\ rpc = "idle"
    /\ object_type = "unbound"
    /\ metastore = NoMetastore
    /\ probes = <<>>
OrchestratorIdle ==
    /\ yaml_content = NoDocument
    /\ service_request = NoRequest
    /\ dry_run = TRUE
    /\ pc = "idle"
    /\ i = 0
    /\ is_add_operation = FALSE
    /\ validation_results = NoValidation
    /\ visited = <<>>
    /\ validation_log = <<>>
    /\ errors = <<>>
    /\ successes = <<>>
ReconcilerIdle ==
    /\ grant_args = NoGrantArgs
    /\ gpc = "idle"
    /\ results = <<>>
    /\ update_calls = <<>>
    /\ grants = InitialGrants

\* ----------------------------------------- the resolver called on its own
SeqsUpTo(S, n) == UNION {[1..k -> S] : k \in 0..n}
PathChars == {"c", ".", "/"}
\* Every path of at most MaxPathLen characters, and two values that are not
\* strings (a YAML `resource: 5` reaches the resolver as the int 5).
Paths ==
    {PyStr(cs) : cs \in SeqsUpTo(PathChars, MaxPathLen)} \cup {PyInt(0), PyInt(5)}

InitResolve ==
    /\ validate_call = IdleValidate
    /\ ParserIdle
    /\ GitHubIdle
    /\ object_path \in Paths
    /\ parts = <<>>
    /\ rpc = "entry"
    /\ object_type = "unbound"
    /\ metastore = NoMetastore
    /\ probes = <<>>
    /\ OrchestratorIdle
    /\ ReconcilerIdle

NextResolve == Resolve

SpecResolve == InitResolve /\ [][NextResolve]_vars

\* Number of "." in a path: its segment count less one.
DotCount(cs) == Cardinality({k \in 1..Len(cs) : cs[k] = "."})
ProbedApis == [k \in 1..Len(probes) |-> probes[k].api]
ProbedNames == {probes[k].full_name : k \in 1..Len(probes)}
LeafOrder == <<"tables.get", "volumes.read", "functions.get">>
ThreeSegments == object_path.tag = "str" /\ DotCount(object_path.chars) = 2

\* C8: for a 3-segment path the probes are issued in the order Table, Volume,
\* Function on the full path, probing stops at the first success, whose type
\* is returned, and Unknown is returned when all three fail.
C8_LeafPriority ==
    ThreeSegments =>
        /\ \E k \in 0..3 : ProbedApis = SubSeq(LeafOrder, 1, k)
        /\ ProbedNames \subseteq {object_path.chars}
        /\ rpc = "returned" =>
            LET t == metastore["tables.get"]
                v == metastore["volumes.read"]
                f == metastore["functions.get"]
            IN /\ t => object_type = TABLE /\ Len(probes) = 1
               /\ (~t /\ v) => object_type = VOLUME /\ Len(probes) = 2
               /\ (~t /\ ~v /\ f) => object_type = FUNCTION /\ Len(probes) = 3
               /\ (~t /\ ~v /\ ~f) => object_type = UNKNOWN /\ Len(probes) = 3

\* C8 case: table and volume lookups would both succeed; classified Table
\* after the table lookup alone.
C8_Witness ==
    /\ ThreeSegments
    /\ rpc = "returned"
    /\ metastore["tables.get"] /\ metastore["volumes.read"]
    /\ object_type = TABLE
    /\ ProbedApis = <<"tables.get">>

\* The classification the claim gives for a path whose segment count is not 3.
C9_Reference(cs, m) ==
    IF cs = <<>> THEN UNKNOWN
    ELSE IF DotCount(cs) = 0
    THEN IF m["catalogs.get"] THEN CATALOG
         ELSE IF cs[1] = "/" THEN VOLUME ELSE UNKNOWN
    ELSE IF DotCount(cs) = 1
    THEN IF m["schemas.get"] THEN SCHEMA ELSE UNKNOWN
    ELSE UNKNOWN

\* C9: for a path of 0, 1, 2 or more than 3 segments resolve returns: Unknown
\* with no probe for the empty path; Catalog if the catalog probe succeeds,
\* else Volume if the path begins with "/", else Unknown, for 1 segment; Schema
\* if the schema probe on seg0.seg1 succeeds, else Unknown, for 2 segments;
\* Unknown with no probe for more than 3.
C9_OtherSegmentCounts ==
    (rpc = "returned" /\ object_path.tag = "str" /\ ~ThreeSegments) =>
        LET cs == object_path.chars IN
        /\ object_type = C9_Reference(cs, metastore)
        /\ (cs = <<>> \/ DotCount(cs) > 2) => probes = <<>>
        /\ (cs # <<>> /\ DotCount(cs) = 0) =>
              /\ ProbedApis = <<"catalogs.get">>
              /\ probes[1].full_name = cs
        /\ DotCount(cs) = 1 =>
              /\ ProbedApis = <<"schemas.get">>
              /\ probes[1].full_name = cs

\* C9 case: a one-segment path beginning with "/" whose catalog probe fails is
\* a Volume.
C9_Witness ==
    /\ rpc = "returned"
    /\ object_path = PyStr(<<"/", "c">>)
    /\ ~metastore["catalogs.get"]
    /\ ProbedApis = <<"catalogs.get">>
    /\ object_type = VOLUME

\* C10: resolve never ends by raising; a type is returned only when its own
\* probe succeeded (a failed probe is "not this type"; Volume also by the "/"
\* rule); no lookup API is called twice in one call; and an error outside the
\* probes (a path that is not a string) gives Unknown.
C10_NoPropagation ==
    /\ rpc # "raised"
    /\ \A j, k \in 1..Len(probes) : j # k => probes[j].api # probes[k].api
    /\ rpc = "returned" =>
        /\ object_type \in {CATALOG, SCHEMA, TABLE, VOLUME, FUNCTION, UNKNOWN}
        /\ object_type = CATALOG => metastore["catalogs.get"]
        /\ object_type = SCHEMA => metastore["schemas.get"]
        /\ object_type = TABLE => metastore["tables.get"]
        /\ object_type = FUNCTION => metastore["functions.get"]
        /\ object_type = VOLUME =>
              \/ metastore["volumes.read"]
              \/ (DotCount(object_path.chars) = 0 /\ object_path.chars[1] = "/")
        /\ object_path.tag # "str" => object_type = UNKNOWN /\ probes = <<>>

\* C10 case: the path is the int 5; split() raised and Unknown was returned.
C10_Witness ==
    /\ object_path = PyInt(5)
    /\ rpc = "returned"
    /\ object_type = UNKNOWN

\* ------------------------------------ validate_privilege called on its own
BOGUS == <<"B","O","G","U","S">>
\* Privilege strings given to validate: every member name in upper case, in
\* lower case and capitalised, a name that is no member, the empty string,
\* and a value that is not a string.
PrivilegeInputs ==
    {PyStr(n) : n \in Privilege}
        \cup {PyStr(lower(n)) : n \in Privilege}
        \cup {PyStr(<<Head(n)>> \o lower(Tail(n))) : n \in Privilege}
        \cup {PyStr(BOGUS), PyStr(lower(BOGUS)), PyStr(<<>>), PyInt(5)}

InitValidate ==
    /\ ParserIdle
    /\ GitHubIdle
    /\ \E p \in PrivilegeInputs, t \in ObjectType :
          validate_call = [state |-> "called", privilege |-> p,
                           object_type |-> t, result |-> Returns(FALSE)]
    /\ ResolverIdle
    /\ OrchestratorIdle
    /\ ReconcilerIdle

\* StandardPrivileges.validate_privilege(privilege, object_type)
CallValidatePrivilege ==
    /\ validate_call.state = "called"
    /\ LET out == validate_privilege(validate_call.privilege,
                                     validate_call.object_type) IN
       validate_call' =
           [validate_call EXCEPT
               !.state = IF out.exc = "None" THEN "returned" ELSE "raised",
               !.result = out]
    /\ UNCHANGED <<resolver_vars, orchestrator_vars, reconciler_vars,
                   parser_vars, github_vars>>

NextValidate == CallValidatePrivilege

SpecValidate == InitValidate /\ [][NextValidate]_vars

Validated(p, t) ==
    /\ validate_call.state = "returned"
    /\ validate_call.privilege = p
    /\ validate_call.object_type = t

\* C5: against Unknown, validate is true exactly when the upper-cased
\* privilege is in the union of the legal sets of all resource types.
C5_UnknownIsUnion ==
    (validate_call.state = "returned" /\ validate_call.object_type = UNKNOWN) =>
        (validate_call.result.val <=>
            upper(validate_call.privilege.chars) \in
                UNION {get_privileges_for_resource_type(t) : t \in ObjectType})

\* C5 case: "read_volume", legal for Volume only, validated against Unknown.
C5_Witness ==
    /\ Validated(PyStr(lower(READ_VOLUME)), UNKNOWN)
    /\ validate_call.result.val

\* C6: against a type other than Unknown, validate is false when the
\* upper-cased privilege is no member of the vocabulary, is otherwise its
\* membership in the type's legal set, and is the same for the upper-cased
\* string; SELECT is valid for Table and not for Volume.
C6_KnownTypeMembership ==
    (validate_call.state = "returned" /\ validate_call.object_type # UNKNOWN) =>
        LET up == upper(validate_call.privilege.chars)
            t == validate_call.object_type
            r == validate_call.result.val
        IN /\ up \notin Privilege => ~r
           /\ up \in Privilege => (r <=> up \in get_privileges_for_resource_type(t))
           /\ r = validate_privilege(PyStr(up), t).val
           /\ (up = SELECT /\ t = TABLE) => r
           /\ (up = SELECT /\ t = VOLUME) => ~r

\* C6 case: lower-case "select" validated against Table.
C6_Witness ==
    /\ Validated(PyStr(lower(SELECT)), TABLE)
    /\ validate_call.result.val

\* C7: ALL_PRIVILEGES is valid for every type other than Unknown, being in
\* each such type's legal set; the legal set of Unknown is empty.
C7_AllPrivilegesEverywhere ==
    (validate_call.state = "returned"
        /\ validate_call.privilege = PyStr(ALL_PRIVILEGES)) =>
        IF validate_call.object_type # UNKNOWN
        THEN /\ validate_call.result.val
             /\ ALL_PRIVILEGES \in
                    get_privileges_for_resource_type(validate_call.object_type)
        ELSE get_privileges_for_resource_type(UNKNOWN) = {}

\* C7 case: ALL_PRIVILEGES validated against Metastore.
C7_Witness ==
    /\ Validated(PyStr(ALL_PRIVILEGES), METASTORE)
    /\ validate_call.result.val

\* ------------------------------------------------------ the grants collaborator
\* workspace_client.grants.update(securable_type, full_name, changes) when it
\* succeeds: the privileges of `add` are held afterwards, those of `remove`
\* are not.  A call that raises changes nothing.
grants_update(held, securable_type, full_name, principal, add, remove) ==
    (held \cup {<<securable_type, full_name, principal, add[k]>> :
                    k \in 1..Len(add)})
        \ {<<securable_type, full_name, principal, remove[k]>> :
               k \in 1..Len(remove)}

\* One grants.update call as the collaborator sees it.  `site` is the place of
\* the call in the reconciler: "parent" (lines 113, 131) or "main" (line 212).
UpdateCall(site, securable_type, full_name, principal, add, remove, ok) ==
    [item |-> i, site |-> site, securable_type |-> securable_type,
     full_name |-> full_name, principal |-> principal, add |-> add,
     remove |-> remove, ok |-> ok]

\* Mutation: an assignment to a key the dict does not hold yet is lost.
DictSet_existing_only(pairs, key, value) ==
    [k \in 1..Len(pairs) |->
        IF pairs[k][1] = key THEN <<key, value>> ELSE pairs[k]]

\* results[key] = value on a dict kept as its (key, value) pairs.
DictSet(pairs, key, value) ==
    IF \E k \in 1..Len(pairs) : pairs[k][1] = key
    THEN [k \in 1..Len(pairs) |->
             IF pairs[k][1] = key THEN <<key, value>> ELSE pairs[k]]
    ELSE Append(pairs, <<key, value>>)

\* Mutation: only the first key of the loop is assigned.
DictSetAll_first_only(pairs, keys, value) ==
    IF keys = <<>> THEN pairs ELSE DictSet(pairs, Head(keys), value)

\* `for privilege in ...: results[privilege] = value`
RECURSIVE DictSetAll(_, _, _)
DictSetAll(pairs, keys, value) ==
    IF keys = <<>> THEN pairs
    ELSE DictSetAll(DictSet(pairs, Head(keys), value), Tail(keys), value)

\* ------------------------------------------------------ PrivilegeGrantManager
\* Mutation: the default of the lookup is "schema".
get_securable_type_default_schema(t) ==
    DictGet(<< <<CATALOG, "catalog">>, <<SCHEMA, "schema">>,
               <<TABLE, "table">>, <<VIEW, "table">>,
               <<FUNCTION, "function">>, <<VOLUME, "volume">> >>, t, "schema")

\* _get_securable_type: the dict literal and its default.
get_securable_type(t) ==
    DictGet(<< <<CATALOG, "catalog">>, <<SCHEMA, "schema">>,
               <<TABLE, "table">>, <<VIEW, "table">>,
               <<FUNCTION, "function">>, <<VOLUME, "volume">> >>, t, "table")

\* Mutation: the schema is named by its own segment, without the catalog.
parse_resource_hierarchy_bare_schema(resource_name) ==
    LET ps == split(resource_name, ".") IN
    [catalog |-> IF Len(ps) >= 1 THEN ps[1] ELSE <<>>,
     schema |-> IF Len(ps) >= 2 THEN ps[2] ELSE <<>>,
     object |-> IF Len(ps) >= 3 THEN resource_name ELSE <<>>]

\* _parse_resource_hierarchy: None is the empty string here (both are falsy,
\* and only truthiness is read).
parse_resource_hierarchy(resource_name) ==
    LET ps == split(resource_name, ".") IN
    [catalog |-> IF Len(ps) >= 1 THEN ps[1] ELSE <<>>,
     schema |-> IF Len(ps) >= 2 THEN Dotted(<<ps[1], ps[2]>>) ELSE <<>>,
     object |-> IF Len(ps) >= 3 THEN resource_name ELSE <<>>]

\* Mutation: schemas are given the parent privileges as well.
cascade_types_with_schema == {TABLE, VIEW, FUNCTION, VOLUME, SCHEMA}

\* line 100: the types whose parents get USE privileges.
cascade_types == {TABLE, VIEW, FUNCTION, VOLUME}

\* f"USE_CATALOG on {hierarchy['catalog']}"
ParentKey(privilege, ancestor) ==
    PyStr(privilege \o <<" ","o","n"," ">> \o ancestor)

Hierarchy == parse_resource_hierarchy(grant_args.resource_name.chars)

\* Where the reconciler goes after the catalog step, and after the entry.
AfterCatalog == IF Hierarchy.schema # <<>> THEN "use_schema" ELSE "batch"
AfterEntry == IF Hierarchy.catalog # <<>> THEN "use_catalog" ELSE AfterCatalog

\* lines 163-169 and 97-104: the parents are visited when adding to a type of
\* cascade_types; a resource name that is not a str makes split() raise
\* inside the try of line 103, which skips both parents.
GrantEntry ==
    /\ gpc = "entry"
    /\ results' = <<>>
    /\ gpc' = IF /\ grant_args.is_add
                 /\ grant_args.object_type \in cascade_types
                 /\ grant_args.resource_name.tag = "str"
              THEN AfterEntry
              ELSE "batch"
    /\ UNCHANGED <<grant_args, update_calls, grants>>
    /\ UNCHANGED <<parser_vars, github_vars, validate_call, resolver_vars, orchestrator_vars>>

\* One parent grant (lines 108-122, 126-140): the call and its recorded outcome.
ParentGrant(securable_type, ancestor, privilege, ok) ==
    /\ update_calls' = Append(update_calls,
           UpdateCall("parent", securable_type, PyStr(ancestor),
                      grant_args.principal, <<privilege>>, <<>>, ok))
    /\ grants' = IF ok
                 THEN grants_update(grants, securable_type, PyStr(ancestor),
                                    grant_args.principal, <<privilege>>, <<>>)
                 ELSE grants
    /\ results' = DictSet(results, ParentKey(privilege, ancestor), ok)

\* lines 107-122: USE_CATALOG on the catalog.
GrantUseCatalog ==
    /\ gpc = "use_catalog"
    /\ \E ok \in BOOLEAN :
          ParentGrant("catalog", Hierarchy.catalog, USE_CATALOG, ok)
    /\ gpc' = AfterCatalog
    /\ UNCHANGED grant_args
    /\ UNCHANGED <<parser_vars, github_vars, validate_call, resolver_vars, orchestrator_vars>>

\* lines 125-140: USE_SCHEMA on the schema.
GrantUseSchema ==
    /\ gpc = "use_schema"
    /\ \E ok \in BOOLEAN :
          ParentGrant("schema", Hierarchy.schema, USE_SCHEMA, ok)
    /\ gpc' = "batch"
    /\ UNCHANGED grant_args
    /\ UNCHANGED <<parser_vars, github_vars, validate_call, resolver_vars, orchestrator_vars>>

\* validate_privilege_for_resource over a list: whether one of the calls raises.
AnyRaises(privileges, t) ==
    \E k \in 1..Len(privileges) : validate_privilege(privileges[k], t).exc # "None"

\* Mutation: no privilege is filtered out.
ValidOnes_everything(privileges, t) == privileges

\* A variant of ValidOnes that keeps the whole request when nothing validates.
ValidOnes_all_when_none(privileges, t) ==
    IF SelectSeq(privileges, LAMBDA q : validate_privilege(q, t).val) = <<>>
    THEN privileges
    ELSE SelectSeq(privileges, LAMBDA q : validate_privilege(q, t).val)

\* lines 172-180 (and 108-114 of the orchestrator): the privileges that
\* validate, and those that do not, in request order.
ValidOnes(privileges, t) ==
    SelectSeq(privileges, LAMBDA q : validate_privilege(q, t).val)
InvalidOnes(privileges, t) ==
    SelectSeq(privileges, LAMBDA q : ~validate_privilege(q, t).val)

\* Mutation: the remove list is filled whatever is_add is.
change_remove_always(privilege_enums, is_add) == privilege_enums

\* lines 207-208: add carries the privileges when adding, remove otherwise.
change_add(privilege_enums, is_add) == IF is_add THEN privilege_enums ELSE <<>>
change_remove(privilege_enums, is_add) == IF ~is_add THEN privilege_enums ELSE <<>>

\* Mutation: a main call that raised is made again.
after_main_call_retry(ok) == IF ok THEN "returned" ELSE "batch"

\* A variant of after_main_call that turns to the ancestors after the main call.
after_main_call_then_ancestors(ok) == "use_catalog"

\* lines 216-228: after the main call, raised or not, the results are returned.
after_main_call(ok) == "returned"

\* lines 171-228: validate every privilege, then one grants.update for the
\* valid ones, whose outcome marks them all.  Validation is outside the try:
\* a privilege that is not a str raises out of the reconciler.  A valid
\* privilege that is no member of the SDK enum is left out of the change
\* (lines 193-198); with no member at all the call is not made (200-202).
GrantBatch ==
    /\ gpc = "batch"
    /\ LET t == grant_args.object_type
           ps == grant_args.privileges
       IN IF AnyRaises(ps, t)
          THEN /\ gpc' = "raised"
               /\ UNCHANGED <<results, update_calls, grants>>
          ELSE LET valid_privileges == ValidOnes(ps, t)
                   marked == DictSetAll(results, ps, FALSE)
                   members == SelectSeq(valid_privileges,
                                  LAMBDA q : upper(q.chars) \in Privilege)
                   privilege_enums ==
                       [k \in 1..Len(members) |-> upper(members[k].chars)]
                   add == change_add(privilege_enums, grant_args.is_add)
                   remove == change_remove(privilege_enums, grant_args.is_add)
               IN IF valid_privileges = <<>> \/ privilege_enums = <<>>
                  THEN /\ gpc' = "returned"
                       /\ results' = marked
                       /\ UNCHANGED <<update_calls, grants>>
                  ELSE \E ok \in BOOLEAN :
                       /\ gpc' = after_main_call(ok)
                       /\ update_calls' = Append(update_calls,
                              UpdateCall("main", get_securable_type(t),
                                         grant_args.resource_name,
                                         grant_args.principal, add, remove, ok))
                       /\ grants' = IF ok
                             THEN grants_update(grants, get_securable_type(t),
                                      grant_args.resource_name,
                                      grant_args.principal, add, remove)
                             ELSE grants
                       /\ results' = DictSetAll(marked, valid_privileges, ok)
    /\ UNCHANGED grant_args
    /\ UNCHANGED <<parser_vars, github_vars, validate_call, resolver_vars, orchestrator_vars>>

Reconcile ==
    \/ GrantEntry
    \/ GrantUseCatalog
    \/ GrantUseSchema
    \/ GrantBatch

\* ------------------------------------------ apply_service_request_privileges
active == <<"a","c","t","i","v","e">>

\* Mutation: the status is compared as given, without lower().
is_add_exact_match(request_status) == request_status = active

\* line 133: service_request.request_status.lower() == "active"
is_add_from_status(request_status) == lower(request_status) = active

\* Mutation: the dry-run flag is not consulted.
should_apply_ignoring_dry_run(dry, valid_privileges) == valid_privileges # <<>>

\* line 164: `if not dry_run and validation_results["valid_privileges"]`
should_apply(dry, valid_privileges) == ~dry /\ valid_privileges # <<>>

\* Mutation: the handler leaves the loop instead of continuing.
after_item_error_break(k) == [pc |-> "done", i |-> k]

\* lines 160-162: the error is logged and the loop continues with the next item.
after_item_error(k) == [pc |-> "loop", i |-> k + 1]

\* validate_privileges_for_resource_type (lines 94-120): the privileges split
\* into valid and invalid, in order; the first value that is not a str raises.
validate_privileges_for_resource_type(privileges, t) ==
    IF AnyRaises(privileges, t) THEN Raises("AttributeError")
    ELSE Returns([valid_privileges |-> ValidOnes(privileges, t),
                  invalid_privileges |-> InvalidOnes(privileges, t)])

RequestItem == service_request.requests[i]

\* Mutation: an item is never taken to be without privileges.
no_privileges_never(privileges) == FALSE

\* line 150: `if not request_item.privileges`
no_privileges(privileges) == privileges = <<>>

\* lines 132-143: the operation is derived from the status before the loop; a
\* status that is not a str has no lower() and the call ends by raising.
Start ==
    /\ pc = "start"
    /\ IF service_request.request_status.tag # "str"
       THEN /\ pc' = "raised"
            /\ UNCHANGED <<i, is_add_operation>>
       ELSE /\ is_add_operation' =
                   is_add_from_status(service_request.request_status.chars)
            /\ i' = 1
            /\ pc' = "loop"
    /\ UNCHANGED <<yaml_content, service_request, dry_run, validation_results, visited,
                   validation_log, errors, successes>>
    /\ UNCHANGED <<parser_vars, github_vars, validate_call, resolver_vars, reconciler_vars>>

\* line 145, 183-184: no item is left.
LoopExit ==
    /\ pc = "loop"
    /\ i > Len(service_request.requests)
    /\ pc' = "done"
    /\ UNCHANGED <<yaml_content, service_request, dry_run, i, is_add_operation,
                   validation_results, visited, validation_log, errors,
                   successes>>
    /\ UNCHANGED <<parser_vars, github_vars, validate_call, resolver_vars, reconciler_vars>>

\* lines 145-152: an item without privileges is skipped.
SkipItem ==
    /\ pc = "loop"
    /\ i <= Len(service_request.requests)
    /\ no_privileges(RequestItem.privileges)
    /\ visited' = Append(visited, i)
    /\ i' = i + 1
    /\ UNCHANGED <<yaml_content, service_request, dry_run, pc, is_add_operation,
                   validation_results, validation_log, errors, successes>>
    /\ UNCHANGED <<parser_vars, github_vars, validate_call, resolver_vars, reconciler_vars>>

\* lines 145-155: the resolver is called with the item's resource.
BeginItem ==
    /\ pc = "loop"
    /\ i <= Len(service_request.requests)
    /\ ~no_privileges(RequestItem.privileges)
    /\ visited' = Append(visited, i)
    /\ pc' = "resolve"
    /\ object_path' = RequestItem.resource
    /\ parts' = <<>>
    /\ rpc' = "entry"
    /\ UNCHANGED <<object_type, metastore, probes>>
    /\ UNCHANGED <<yaml_content, service_request, dry_run, i, is_add_operation,
                   validation_results, validation_log, errors, successes>>
    /\ UNCHANGED <<parser_vars, github_vars, validate_call, reconciler_vars>>

\* lines 155-175: the resolver has returned; the privileges are validated
\* against the type, and outside a dry run the valid ones go to the
\* reconciler.  An exception up to here is caught at line 160.
ValidateItem ==
    /\ pc = "resolve"
    /\ rpc \in {"returned", "raised"}
    /\ LET out == IF rpc = "raised" THEN Raises("AttributeError")
                  ELSE validate_privileges_for_resource_type(
                           RequestItem.privileges, object_type)
       IN IF out.exc # "None"
          THEN /\ errors' = Append(errors, [item |-> i, at |-> "processing"])
               /\ pc' = after_item_error(i).pc
               /\ i' = after_item_error(i).i
               /\ UNCHANGED <<validation_results, validation_log, grant_args,
                              gpc>>
          ELSE /\ validation_results' = out.val
               /\ validation_log' = Append(validation_log,
                      [item |-> i, object_type |-> object_type,
                       valid_privileges |-> out.val.valid_privileges,
                       invalid_privileges |-> out.val.invalid_privileges])
               /\ UNCHANGED errors
               /\ IF should_apply(dry_run, out.val.valid_privileges)
                  THEN /\ pc' = "apply"
                       /\ grant_args' =
                              [resource_name |-> RequestItem.resource,
                               object_type |-> object_type,
                               principal |-> RequestItem.principal.id,
                               privileges |-> out.val.valid_privileges,
                               is_add |-> is_add_operation]
                       /\ gpc' = "entry"
                       /\ UNCHANGED i
                  ELSE /\ pc' = "loop"
                       /\ i' = i + 1
                       /\ UNCHANGED <<grant_args, gpc>>
    /\ rpc' = "idle"
    /\ metastore' = NoMetastore
    /\ UNCHANGED <<object_path, parts, object_type, probes>>
    /\ UNCHANGED <<yaml_content, service_request, dry_run, is_add_operation, visited,
                   successes>>
    /\ UNCHANGED <<parser_vars, github_vars, validate_call, results, update_calls, grants>>

\* lines 169-181: the reconciler has returned (success is logged) or raised
\* (the error is logged); either way the loop goes on.
AfterApply ==
    /\ pc = "apply"
    /\ gpc \in {"returned", "raised"}
    /\ IF gpc = "returned"
       THEN /\ successes' = Append(successes, i)
            /\ UNCHANGED errors
       ELSE /\ errors' = Append(errors, [item |-> i, at |-> "applying"])
            /\ UNCHANGED successes
    /\ i' = i + 1
    /\ pc' = "loop"
    /\ gpc' = "idle"
    /\ grant_args' = NoGrantArgs
    /\ results' = <<>>
    /\ UNCHANGED <<yaml_content, service_request, dry_run, is_add_operation,
                   validation_results, visited, validation_log>>
    /\ UNCHANGED <<update_calls, grants>>
    /\ UNCHANGED <<parser_vars, github_vars, validate_call, resolver_vars>>

\* ------------------------------------------------------ ServiceRequestParser
access == <<"a","c","c","e","s","s">>

\* `key in mapping` on a mapping kept as its (key, value) pairs.
HasKey(pairs, key) == \E k \in 1..Len(pairs) : pairs[k][1] = key

\* lines 49-50
required_keys == <<"request-name", "request-type", "request-status", "requests">>
required_request_keys == <<"principal", "resource">>

\* yml.validate_yaml_structure: a mapping that holds every required key.
validate_yaml_structure(content, keys) ==
    /\ content.tag = "dict"
    /\ \A k \in 1..Len(keys) : HasKey(content.pairs, keys[k])

\* A variant of privileges_as_list that wraps every value that is no list.
privileges_as_list_wraps_any(request_data) ==
    LET privileges == DictGet(request_data.pairs, "privileges", YList(<<>>))
    IN IF privileges.tag # "list" THEN <<privileges>> ELSE privileges.items

\* lines 174-179: a single string is made a list of one, anything else that
\* is no list an empty list; a missing key is an empty list.
privileges_as_list(request_data) ==
    LET privileges == DictGet(request_data.pairs, "privileges", YList(<<>>))
    IN IF privileges.tag = "str" THEN <<privileges>>
       ELSE IF privileges.tag # "list" THEN <<>>
       ELSE privileges.items

\* A variant of parse_request_item that asks a principal for its type only.
parse_request_item_type_only(request_data) ==
    IF request_data.tag # "dict" THEN Raises("ValueError")
    ELSE IF \E k \in 1..Len(required_request_keys) :
               ~HasKey(request_data.pairs, required_request_keys[k])
    THEN Raises("ValueError")
    ELSE LET principal_data == DictGet(request_data.pairs, "principal", NoDocument)
         IN IF principal_data.tag # "dict" THEN Raises("ValueError")
            ELSE IF ~HasKey(principal_data.pairs, "type")
            THEN Raises("ValueError")
            ELSE Returns(
                [principal |->
                     [type |-> DictGet(principal_data.pairs, "type", ""),
                      id |-> DictGet(principal_data.pairs, "id", "")],
                 resource |-> DictGet(request_data.pairs, "resource", NoDocument),
                 privileges |-> privileges_as_list(request_data)])

\* lines 155-186, one turn of the loop: the item, or the ValueError raised.
parse_request_item(request_data) ==
    IF request_data.tag # "dict" THEN Raises("ValueError")
    ELSE IF \E k \in 1..Len(required_request_keys) :
               ~HasKey(request_data.pairs, required_request_keys[k])
    THEN Raises("ValueError")
    ELSE LET principal_data == DictGet(request_data.pairs, "principal", NoDocument)
         IN IF principal_data.tag # "dict" THEN Raises("ValueError")
            ELSE IF ~HasKey(principal_data.pairs, "type")
                    \/ ~HasKey(principal_data.pairs, "id")
            THEN Raises("ValueError")
            ELSE Returns(
                [principal |->
                     [type |-> DictGet(principal_data.pairs, "type", ""),
                      id |-> DictGet(principal_data.pairs, "id", "")],
                 resource |-> DictGet(request_data.pairs, "resource", NoDocument),
                 privileges |-> privileges_as_list(request_data)])

\* A variant of missing_keys that reports only the first key found missing.
missing_keys_first_only(pairs, keys) ==
    LET absent == SelectSeq(keys, LAMBDA key : ~HasKey(pairs, key))
    IN IF absent = <<>> THEN <<>> ELSE <<absent[1]>>

\* lines 139 and 160: [key for key in keys if key not in mapping]
missing_keys(pairs, keys) == SelectSeq(keys, LAMBDA key : ~HasKey(pairs, key))

\* lines 141 and 162: the ValueError whose message lists the missing keys.
MissingKeysError(keys) ==
    [exc |-> "ValueError", val |-> FALSE, missing_keys |-> keys]

\* _parse_yaml_content (lines 127-195) on a mapping: the ServiceRequest, or
\* the ValueError of the first check that fails.
parse_yaml_content(content) ==
    IF missing_keys(content.pairs, required_keys) # <<>>
    THEN MissingKeysError(missing_keys(content.pairs, required_keys))
    ELSE LET requests_data == DictGet(content.pairs, "requests", NoDocument)
         IN IF requests_data.tag # "list" THEN Raises("ValueError")
            ELSE LET parsed == [k \in 1..Len(requests_data.items) |->
                                   parse_request_item(requests_data.items[k])]
                 IN IF \E k \in 1..Len(parsed) : parsed[k].exc # "None"
                    THEN Raises("ValueError")
                    ELSE Returns(
                        [name |-> DictGet(content.pairs, "request-name", NoDocument),
                         request_type |->
                             DictGet(content.pairs, "request-type", NoDocument),
                         request_status |->
                             DictGet(content.pairs, "request-status", NoDocument),
                         requests |-> [k \in 1..Len(parsed) |-> parsed[k].val]])

\* parse_service_requests_directory, one file (lines 103-118), then main
\* (apply_priviliges.py lines 219-225): a document of the wrong structure or
\* one that fails to parse is passed over; a parsed one is handed to
\* apply_service_request_privileges.
Parse ==
    /\ pc = "parse"
    /\ LET out == IF validate_yaml_structure(yaml_content, required_keys)
                  THEN parse_yaml_content(yaml_content)
                  ELSE Raises("skipped")
       IN IF out.exc # "None"
          THEN /\ pc' = "skipped"
               /\ UNCHANGED service_request
          ELSE /\ pc' = "start"
               /\ service_request' = out.val
    /\ UNCHANGED <<yaml_content, dry_run, i, is_add_operation,
                   validation_results, visited, validation_log, errors,
                   successes>>
    /\ UNCHANGED <<parser_vars, github_vars, validate_call, resolver_vars, reconciler_vars>>

\* ---------------------------------------------------------- service requests
User1 == [type |-> "user", id |-> "u1"]
Path_c_s_t == <<"c",".","s",".","t">>
Path_c_s == <<"c",".","s">>
Path_c == <<"c">>
Path_v == <<"/","v">>

\* The items a request is made of: a leaf object, an item without
\* privileges, an item whose resource and second privilege are YAML ints, a
\* path-style volume and a schema, each with one privilege that is no member.
Items ==
    {[principal |-> User1, resource |-> PyStr(Path_c_s_t),
      privileges |-> <<PyStr(SELECT)>>],
     [principal |-> User1, resource |-> PyStr(Path_c),
      privileges |-> <<>>],
     [principal |-> User1, resource |-> PyInt(5),
      privileges |-> <<PyStr(lower(SELECT)), PyInt(7)>>],
     [principal |-> User1, resource |-> PyStr(Path_v),
      privileges |-> <<PyStr(READ_VOLUME), PyStr(BOGUS)>>],
     [principal |-> User1, resource |-> PyStr(Path_c_s),
      privileges |-> <<PyStr(USE_SCHEMA), PyStr(BOGUS)>>]}

Statuses ==
    {PyStr(active), PyStr(upper(active)),
     PyStr(<<"i","n">> \o active), PyInt(1)}

ServiceRequests ==
    {[name |-> PyStr(<<"R">>), request_type |-> PyStr(access),
      request_status |-> st, requests |-> rs] :
        st \in Statuses, rs \in SeqsUpTo(Items, MaxItems)}

Init ==
    /\ validate_call = IdleValidate
    /\ ParserIdle
    /\ GitHubIdle
    /\ ResolverIdle
    /\ yaml_content = NoDocument
    /\ service_request \in ServiceRequests
    /\ dry_run \in BOOLEAN
    /\ pc = "start"
    /\ i = 0
    /\ is_add_operation = FALSE
    /\ validation_results = NoValidation
    /\ visited = <<>>
    /\ validation_log = <<>>
    /\ errors = <<>>
    /\ successes = <<>>
    /\ ReconcilerIdle

Next ==
    \/ Start
    \/ LoopExit
    \/ SkipItem
    \/ BeginItem
    \/ Resolve
    \/ ValidateItem
    \/ Reconcile
    \/ AfterApply

Spec == Init /\ [][Next]_vars

\* C1: in a dry run grants.update is never called, on a target or on an
\* ancestor; the reconciler is never entered and the grants held stay as
\* they were.
C1_DryRunNoGrantCall ==
    dry_run =>
        /\ update_calls = <<>>
        /\ gpc = "idle"
        /\ grants = InitialGrants

\* C1 case: a dry run that ended after validating an item with a valid
\* privilege of an "active" request.
C1_Witness ==
    /\ dry_run
    /\ pc = "done"
    /\ service_request.request_status = PyStr(active)
    /\ \E k \in 1..Len(validation_log) :
          validation_log[k].valid_privileges # <<>>

StatusIsActive == lower(service_request.request_status.chars) = active

\* C2 as claimed: is_add is true exactly when request_status is the string
\* "active".
C2_Original_ExactActive ==
    gpc # "idle" =>
        (grant_args.is_add <=> service_request.request_status = PyStr(active))

\* C2 amended: the reconciler is called with is_add true exactly when the
\* lower-cased request_status is "active"; every grants.update then carries
\* an add and no remove, and for any other status string a remove and no add.
C2_IsAddFromLoweredStatus ==
    /\ gpc # "idle" => (grant_args.is_add <=> StatusIsActive)
    /\ \A k \in 1..Len(update_calls) :
          IF StatusIsActive
          THEN update_calls[k].add # <<>> /\ update_calls[k].remove = <<>>
          ELSE update_calls[k].add = <<>> /\ update_calls[k].remove # <<>>

\* C2 case: status "ACTIVE", the batch call was made as an add.
C2_Witness ==
    /\ service_request.request_status = PyStr(upper(active))
    /\ gpc = "returned"
    /\ grant_args.is_add
    /\ update_calls # <<>>
    /\ update_calls[Len(update_calls)].add # <<>>

\* C3: the items are entered one by one in request order whatever happened to
\* the earlier ones: a caught error never ends the loop, and at the end every
\* item has been entered, each error belonging to an entered item.
C3_FailureIsolation ==
    /\ \A k \in 1..Len(visited) : visited[k] = k
    /\ pc = "loop" => Len(visited) = i - 1
    /\ pc \in {"resolve", "apply"} => Len(visited) = i
    /\ pc = "done" => Len(visited) = Len(service_request.requests)
    /\ \A k \in 1..Len(errors) : errors[k].item \in 1..Len(visited)

\* C3 case: item 1 raised while being validated, item 2 was then entered and
\* its grant applied.
C3_Witness ==
    /\ pc = "done"
    /\ \E k \in 1..Len(errors) : errors[k].item = 1
    /\ visited = <<1, 2>>
    /\ successes = <<2>>

\* C4 as claimed: no privilege of an item resolved to Unknown is reported valid.
C4_Original_UnknownRejectsAll ==
    \A k \in 1..Len(validation_log) :
        validation_log[k].object_type = UNKNOWN =>
            validation_log[k].valid_privileges = <<>>

\* The union of the legal privilege sets of all resource types.
UnionOfLegalSets ==
    UNION {get_privileges_for_resource_type(t) : t \in ObjectType}
InUnionOfLegalSets(q) == upper(q.chars) \in UnionOfLegalSets

\* C4 amended: for an item resolved to Unknown, validation reports valid
\* exactly the privileges that, upper-cased, are legal for some resource
\* type, and rejects exactly the others.
C4_UnknownAcceptsUnion ==
    \A k \in 1..Len(validation_log) :
        validation_log[k].object_type = UNKNOWN =>
            LET ps == service_request.requests[validation_log[k].item].privileges
            IN /\ validation_log[k].valid_privileges =
                      SelectSeq(ps, InUnionOfLegalSets)
               /\ validation_log[k].invalid_privileges =
                      SelectSeq(ps, LAMBDA q : ~InUnionOfLegalSets(q))

\* C4 case: c.s resolved to Unknown; USE_SCHEMA was reported valid and BOGUS
\* rejected.
C4_Witness ==
    \E k \in 1..Len(validation_log) :
        /\ validation_log[k].object_type = UNKNOWN
        /\ validation_log[k].valid_privileges = <<PyStr(USE_SCHEMA)>>
        /\ validation_log[k].invalid_privileges = <<PyStr(BOGUS)>>

\* --------------------------------------- the reconciler called on its own
\* apply_multiple_privileges(resource_name, object_type, principal,
\* privileges, is_add) with arguments of the declared types, whatever the
\* orchestrator would have passed.
MaxPrivileges == 2

\* Resources of three, two and one segment, and one whose first segment is
\* empty.
ReconcileResources ==
    {PyStr(Path_c_s_t), PyStr(Path_c_s), PyStr(Path_v), PyStr(<<".","t">>)}

\* Privilege strings: a member, a member in lower case that every type
\* accepts, a string that is no member, and a string spelled like the key of
\* a parent outcome.
ReconcilePrivileges ==
    {PyStr(SELECT), PyStr(lower(ALL_PRIVILEGES)), PyStr(BOGUS),
     ParentKey(USE_CATALOG, Path_c)}

InitReconcile ==
    /\ validate_call = IdleValidate
    /\ ParserIdle
    /\ GitHubIdle
    /\ ResolverIdle
    /\ OrchestratorIdle
    /\ grant_args \in
          [resource_name : ReconcileResources,
           object_type : ObjectType,
           principal : {User1.id},
           privileges : SeqsUpTo(ReconcilePrivileges, MaxPrivileges),
           is_add : BOOLEAN]
    /\ gpc = "entry"
    /\ results = <<>>
    /\ update_calls = <<>>
    /\ grants = InitialGrants

NextReconcile == Reconcile

SpecReconcile == InitReconcile /\ [][NextReconcile]_vars

\* What the collaborator was asked, without the outcome of the call.
Asked(call) ==
    [securable_type |-> call.securable_type, full_name |-> call.full_name,
     principal |-> call.principal, add |-> call.add, remove |-> call.remove]
ParentCalls == SelectSeq(update_calls, LAMBDA call : call.site = "parent")
MainCalls == SelectSeq(update_calls, LAMBDA call : call.site = "main")
AskedOfParents == [k \in 1..Len(ParentCalls) |-> Asked(ParentCalls[k])]
ResultKeys == {results[k][1] : k \in 1..Len(results)}
Requested == {grant_args.privileges[k] : k \in 1..Len(grant_args.privileges)}
Segments == split(grant_args.resource_name.chars, ".")
\* The parents have been dealt with.
PastParents == gpc \in {"batch", "returned"}
AddToLeafType ==
    /\ grant_args.is_add
    /\ grant_args.object_type \in {TABLE, VIEW, FUNCTION, VOLUME}
AskUseCatalog ==
    [securable_type |-> "catalog", full_name |-> PyStr(Segments[1]),
     principal |-> grant_args.principal, add |-> <<USE_CATALOG>>,
     remove |-> <<>>]
AskUseSchema ==
    [securable_type |-> "schema",
     full_name |-> PyStr(Segments[1] \o <<".">> \o Segments[2]),
     principal |-> grant_args.principal, add |-> <<USE_SCHEMA>>,
     remove |-> <<>>]

\* C11 as claimed: adding to a Table, View, Function or Volume attempts both
\* parent grants, USE_CATALOG on the catalog and USE_SCHEMA on catalog.schema;
\* otherwise no parent call is made and no parent outcome recorded.
C11_Original_BothParents ==
    PastParents =>
        IF AddToLeafType
        THEN /\ Len(ParentCalls) = 2
             /\ ParentCalls[1].securable_type = "catalog"
             /\ ParentCalls[1].add = <<USE_CATALOG>>
             /\ ParentCalls[2].securable_type = "schema"
             /\ ParentCalls[2].add = <<USE_SCHEMA>>
        ELSE /\ ParentCalls = <<>>
             /\ ResultKeys \subseteq Requested

\* C11 amended: parent grants are attempted only when adding to a Table, View,
\* Function or Volume, and then as add calls for the principal: USE_CATALOG on
\* the first segment of the resource when that segment is not empty, then
\* USE_SCHEMA on "first.second" when the resource has two segments or more.
\* When removing, or for any other type, no parent call is made and the
\* results hold requested privileges only.
C11_ParentGrants ==
    PastParents =>
        /\ AskedOfParents =
              (IF AddToLeafType /\ Segments[1] # <<>>
               THEN <<AskUseCatalog>> ELSE <<>>)
              \o (IF AddToLeafType /\ Len(Segments) >= 2
                  THEN <<AskUseSchema>> ELSE <<>>)
        /\ ~AddToLeafType =>
              /\ update_calls = MainCalls
              /\ ResultKeys \subseteq Requested

\* C11 case: SELECT was added on the table c.s.t and both parents were asked.
C11_Witness ==
    /\ gpc = "returned"
    /\ grant_args.is_add
    /\ grant_args.object_type = TABLE
    /\ grant_args.resource_name = PyStr(Path_c_s_t)
    /\ Len(ParentCalls) = 2

\* The privileges of the request that validate against its type.
ValidRequested == ValidOnes(grant_args.privileges, grant_args.object_type)
\* results.get(key, False)
Recorded(key) == DictGet(results, key, FALSE)

\* C12: the parent grants are isolated.  Whatever the outcome of the
\* USE_CATALOG call, the USE_SCHEMA call and the main call are still made, and
\* whatever the outcome of the USE_SCHEMA call the main call is still made;
\* the results returned hold, under "<privilege> on <ancestor>", the outcome
\* of that parent call and nothing else.
C12_ParentIsolation ==
    (gpc = "returned" /\ AddToLeafType) =>
        /\ Len(ParentCalls) =
              (IF Segments[1] # <<>> THEN 1 ELSE 0)
              + (IF Len(Segments) >= 2 THEN 1 ELSE 0)
        /\ ValidRequested # <<>> => Len(MainCalls) = 1
        /\ \A k \in 1..Len(ParentCalls) :
              LET key == ParentKey(ParentCalls[k].add[1],
                                   ParentCalls[k].full_name.chars)
              IN key \in ResultKeys /\ Recorded(key) = ParentCalls[k].ok

\* Whether the taxonomy accepts a requested privilege for the request's type.
Passes(q) == validate_privilege(q, grant_args.object_type).val
\* The members the requested privileges that pass stand for, in request order.
PassedMembers ==
    LET passed == SelectSeq(grant_args.privileges, Passes)
    IN [k \in 1..Len(passed) |-> upper(passed[k].chars)]

\* C13: when reconcile returns, every requested privilege that fails
\* validation against the type is recorded as not applied, whether the calls
\* to the collaborator succeeded or raised, and the change of the main call
\* carries exactly the privileges that passed validation, none that failed.
C13_InvalidExcluded ==
    gpc = "returned" =>
        /\ \A q \in Requested :
              ~Passes(q) => q \in ResultKeys /\ Recorded(q) = FALSE
        /\ \A k \in 1..Len(MainCalls) :
              MainCalls[k].add \o MainCalls[k].remove = PassedMembers

\* C13 case: SELECT and BOGUS were requested on a table; the main call
\* succeeded carrying SELECT alone, and BOGUS is recorded as not applied.
C13_Witness ==
    /\ gpc = "returned"
    /\ grant_args.object_type = TABLE
    /\ grant_args.privileges = <<PyStr(SELECT), PyStr(BOGUS)>>
    /\ Len(MainCalls) = 1
    /\ MainCalls[1].ok
    /\ MainCalls[1].add = <<SELECT>>
    /\ Recorded(PyStr(BOGUS)) = FALSE
    /\ Recorded(PyStr(SELECT)) = TRUE

\* C14: one reconcile makes the main call once when a requested privilege
\* passed validation and not at all otherwise, never a second time after the
\* call raised; the call names the resource and the principal of the request
\* and carries an add and no remove when is_add, a remove and no add otherwise.
C14_OneMainCall ==
    /\ Len(MainCalls) <= 1
    /\ gpc = "returned" =>
          Len(MainCalls) = (IF PassedMembers # <<>> THEN 1 ELSE 0)
    /\ \A k \in 1..Len(MainCalls) :
          /\ MainCalls[k].full_name = grant_args.resource_name
          /\ MainCalls[k].principal = grant_args.principal
          /\ IF grant_args.is_add
             THEN MainCalls[k].add # <<>> /\ MainCalls[k].remove = <<>>
             ELSE MainCalls[k].add = <<>> /\ MainCalls[k].remove # <<>>

\* C14 case: a remove whose main call raised; reconcile returned after that
\* one call.
C14_Witness ==
    /\ gpc = "returned"
    /\ ~grant_args.is_add
    /\ Len(MainCalls) = 1
    /\ ~MainCalls[1].ok
    /\ MainCalls[1].remove = <<SELECT>>

\* C15 as claimed: the main call names "catalog" for Catalog, "schema" for
\* Schema, "table" for Table and View, "function" for Function, "volume" for
\* Volume, "registered_model" for Model and "table" for every other type.
C15_Original_ModelRegistered ==
    \A k \in 1..Len(MainCalls) :
        LET t == grant_args.object_type
            sent == MainCalls[k].securable_type
        IN /\ t = CATALOG => sent = "catalog"
           /\ t = SCHEMA => sent = "schema"
           /\ t \in {TABLE, VIEW} => sent = "table"
           /\ t = FUNCTION => sent = "function"
           /\ t = VOLUME => sent = "volume"
           /\ t = MODEL => sent = "registered_model"
           /\ t \notin {CATALOG, SCHEMA, TABLE, VIEW, FUNCTION, VOLUME, MODEL}
                 => sent = "table"

\* C15 amended: the main call names "catalog" for Catalog, "schema" for
\* Schema, "function" for Function, "volume" for Volume, and "table" for
\* Table, View, Model and every other type.
C15_SecurableTypeString ==
    \A k \in 1..Len(MainCalls) :
        LET t == grant_args.object_type
            sent == MainCalls[k].securable_type
        IN /\ t = CATALOG => sent = "catalog"
           /\ t = SCHEMA => sent = "schema"
           /\ t = FUNCTION => sent = "function"
           /\ t = VOLUME => sent = "volume"
           /\ t \in {TABLE, VIEW, MODEL} => sent = "table"
           /\ t \notin {CATALOG, SCHEMA, FUNCTION, VOLUME} => sent = "table"

\* C15 case: a privilege was granted on a Model and the main call named
\* "table".
C15_Witness ==
    /\ gpc = "returned"
    /\ grant_args.object_type = MODEL
    /\ Len(MainCalls) = 1
    /\ MainCalls[1].securable_type = "table"

\* C16: the outcome of the main call is the outcome of every privilege that
\* passed validation: all are recorded applied when the call succeeded, all
\* not applied when it raised, so no two of them are recorded differently.
C16_AllOrNothing ==
    gpc = "returned" =>
        /\ \A k \in 1..Len(MainCalls) :
              \A q \in Requested :
                  Passes(q) => q \in ResultKeys /\ Recorded(q) = MainCalls[k].ok
        /\ \A q1, q2 \in Requested :
              Passes(q1) /\ Passes(q2) => Recorded(q1) = Recorded(q2)

\* C16 case: two privileges passed validation on a table and the main call
\* succeeded; both are recorded applied.
C16_Witness ==
    /\ gpc = "returned"
    /\ grant_args.object_type = TABLE
    /\ grant_args.privileges = <<PyStr(SELECT), PyStr(lower(ALL_PRIVILEGES))>>
    /\ Len(MainCalls) = 1
    /\ MainCalls[1].ok
    /\ Recorded(PyStr(SELECT))
    /\ Recorded(PyStr(lower(ALL_PRIVILEGES)))

\* C17: the mapping reconcile returns holds every requested privilege, valid
\* or not, and each of its other keys is the key of a parent outcome,
\* "USE_CATALOG on <catalog>" or "USE_SCHEMA on <catalog.schema>" of a parent
\* call that was made.
C17_EveryRequestedRecorded ==
    gpc = "returned" =>
        /\ Requested \subseteq ResultKeys
        /\ \A key \in ResultKeys \ Requested :
              \E k \in 1..Len(ParentCalls) :
                  key = ParentKey(ParentCalls[k].add[1],
                                  ParentCalls[k].full_name.chars)

\* C17 case: a valid and an invalid privilege were added on the table c.s.t;
\* the mapping holds both and the two parent outcomes.
C17_Witness ==
    /\ gpc = "returned"
    /\ grant_args.is_add
    /\ grant_args.object_type = TABLE
    /\ grant_args.resource_name = PyStr(Path_c_s_t)
    /\ grant_args.privileges = <<PyStr(SELECT), PyStr(BOGUS)>>
    /\ ResultKeys = {PyStr(SELECT), PyStr(BOGUS),
                     ParentKey(USE_CATALOG, Path_c),
                     ParentKey(USE_SCHEMA, Path_c_s)}

\* The items of the request that carry no privilege.
EmptyItems ==
    {k \in 1..Len(service_request.requests) :
        service_request.requests[k].privileges = <<>>}

\* C18: an item without privileges is skipped.  No lookup of the resolver and
\* no grants.update call is ever made for it, it is never validated and
\* never the cause of an error, and the loop goes on with the item after it.
C18_EmptyItemSkipped ==
    /\ \A k \in EmptyItems :
          /\ \A n \in 1..Len(probes) : probes[n].item # k
          /\ \A n \in 1..Len(update_calls) : update_calls[n].item # k
          /\ \A n \in 1..Len(validation_log) : validation_log[n].item # k
          /\ \A n \in 1..Len(errors) : errors[n].item # k
          /\ \A n \in 1..Len(successes) : successes[n] # k
          /\ (pc \in {"resolve", "apply"}) => i # k
    /\ pc = "done" => Len(visited) = Len(service_request.requests)

\* C18 case: in a run that applies, item 1 had no privilege and was passed
\* over; item 2 was then resolved and its grant made.
C18_Witness ==
    /\ ~dry_run
    /\ pc = "done"
    /\ 1 \in EmptyItems
    /\ visited = <<1, 2>>
    /\ \E n \in 1..Len(probes) : probes[n].item = 2
    /\ \E n \in 1..Len(update_calls) : update_calls[n].item = 2

\* What a grants.update call that succeeded left with the collaborator.
InPlace(call) ==
    /\ \A n \in 1..Len(call.add) :
          <<call.securable_type, call.full_name, call.principal, call.add[n]>>
              \in grants
    /\ \A n \in 1..Len(call.remove) :
          <<call.securable_type, call.full_name, call.principal,
            call.remove[n]>> \notin grants

\* C19: the items are not a transaction.  The main call of an item is made
\* at most once; the calls follow the order of the items, so none is made
\* for an item after a later item was begun; no call goes against the
\* direction of the request (no remove in an add run, no add in a remove
\* run); and what every call that succeeded did is still in place, whatever
\* happened to the items after it.
C19_NotTransactional ==
    /\ \A k \in 1..Len(service_request.requests) :
          Len(SelectSeq(MainCalls, LAMBDA call : call.item = k)) <= 1
    /\ \A m, n \in 1..Len(update_calls) :
          m < n => update_calls[m].item <= update_calls[n].item
    /\ \A n \in 1..Len(update_calls) :
          /\ update_calls[n].item <= i
          /\ IF is_add_operation
             THEN update_calls[n].remove = <<>>
             ELSE update_calls[n].add = <<>>
          /\ update_calls[n].ok => InPlace(update_calls[n])

\* C19 case: the grant of item 1 succeeded, the main call of item 2 raised,
\* and at the end of the run the grant of item 1 is held.
C19_Witness ==
    /\ pc = "done"
    /\ is_add_operation
    /\ \E m, n \in 1..Len(MainCalls) :
          /\ MainCalls[m].item = 1 /\ MainCalls[m].ok
          /\ MainCalls[n].item = 2 /\ ~MainCalls[n].ok
          /\ InPlace(MainCalls[m])
          /\ <<MainCalls[m].securable_type, MainCalls[m].full_name,
               MainCalls[m].principal, MainCalls[m].add[1]>> \notin InitialGrants

\* ------------------------------------------- a document parsed, then applied
YamlPrincipal == YDict(<< <<"type", User1.type>>, <<"id", User1.id>> >>)
YamlItem(resource, privileges) ==
    YDict(<< <<"principal", YamlPrincipal>>, <<"resource", resource>>,
             <<"privileges", privileges>> >>)

\* The entries of `requests`: a table with a list of one privilege, a schema
\* whose privilege is given as a single string, a path-style volume with a
\* privilege that is no member, an item without `privileges`, an item
\* without `resource`, and an entry that is no mapping.
YamlItems ==
    {YamlItem(PyStr(Path_c_s_t), YList(<<PyStr(SELECT)>>)),
     YamlItem(PyStr(Path_c_s), PyStr(USE_SCHEMA)),
     YamlItem(PyStr(Path_v), YList(<<PyStr(READ_VOLUME), PyStr(BOGUS)>>)),
     YDict(<< <<"principal", YamlPrincipal>>, <<"resource", PyStr(Path_c)>> >>),
     YDict(<< <<"principal", YamlPrincipal>> >>),
     PyStr(Path_c)}

Document(request_status, requests) ==
    YDict(<< <<"request-name", PyStr(<<"R">>)>>,
             <<"request-type", PyStr(access)>>,
             <<"request-status", request_status>>,
             <<"requests", requests>> >>)

\* Documents of up to MaxItems entries, one whose `requests` is no list and
\* one without `requests`.
Documents ==
    {Document(st, YList(entries)) :
        st \in {PyStr(active), PyStr(<<"i","n">> \o active)},
        entries \in SeqsUpTo(YamlItems, MaxItems)}
    \cup {Document(PyStr(active), PyStr(Path_c)),
          YDict(<< <<"request-name", PyStr(<<"R">>)>>,
                   <<"request-type", PyStr(access)>>,
                   <<"request-status", PyStr(active)>> >>)}

InitEndToEnd ==
    /\ validate_call = IdleValidate
    /\ ParserIdle
    /\ GitHubIdle
    /\ ResolverIdle
    /\ yaml_content \in Documents
    /\ service_request = NoRequest
    /\ dry_run \in BOOLEAN
    /\ pc = "parse"
    /\ i = 0
    /\ is_add_operation = FALSE
    /\ validation_results = NoValidation
    /\ visited = <<>>
    /\ validation_log = <<>>
    /\ errors = <<>>
    /\ successes = <<>>
    /\ ReconcilerIdle

NextEndToEnd == Parse \/ Next

SpecEndToEnd == InitEndToEnd /\ [][NextEndToEnd]_vars

\* The document of C20 and the three grants.update calls it is to produce.
C20_Document ==
    Document(PyStr(active),
             YList(<<YamlItem(PyStr(Path_c_s_t), YList(<<PyStr(SELECT)>>))>>))
C20_Calls ==
    <<[item |-> 1, site |-> "parent", securable_type |-> "catalog",
       full_name |-> PyStr(<<"c">>), principal |-> "u1",
       add |-> <<USE_CATALOG>>, remove |-> <<>>, ok |-> TRUE],
      [item |-> 1, site |-> "parent", securable_type |-> "schema",
       full_name |-> PyStr(<<"c",".","s">>), principal |-> "u1",
       add |-> <<USE_SCHEMA>>, remove |-> <<>>, ok |-> TRUE],
      [item |-> 1, site |-> "main", securable_type |-> "table",
       full_name |-> PyStr(<<"c",".","s",".","t">>), principal |-> "u1",
       add |-> <<SELECT>>, remove |-> <<>>, ok |-> TRUE]>>
\* c.s.t was found to be a table, and no grants.update call has raised.
C20_TableAllGranted ==
    /\ \E n \in 1..Len(validation_log) : validation_log[n].object_type = TABLE
    /\ \A n \in 1..Len(update_calls) : update_calls[n].ok

\* C20: the document {request-name: R, request-type: access, request-status:
\* active, requests: [{principal: {type: user, id: u1}, resource: c.s.t,
\* privileges: [SELECT]}]} parses to a request of that one item; applied
\* outside a dry run, with c.s.t found to be a table and every grants.update
\* succeeding, it makes exactly three calls for u1, in this order: add
\* USE_CATALOG on catalog c, add USE_SCHEMA on schema c.s, add SELECT on table
\* c.s.t, and the reconciler returns SELECT as applied.
C20_EndToEnd ==
    yaml_content = C20_Document =>
        /\ pc # "skipped"
        /\ pc # "parse" =>
              service_request =
                  [name |-> PyStr(<<"R">>), request_type |-> PyStr(access),
                   request_status |-> PyStr(active),
                   requests |-> <<[principal |-> User1,
                                   resource |-> PyStr(Path_c_s_t),
                                   privileges |-> <<PyStr(SELECT)>>]>>]
        /\ (pc = "apply" /\ gpc = "returned" /\ C20_TableAllGranted) =>
              /\ update_calls = C20_Calls
              /\ results = << <<ParentKey(USE_CATALOG, Path_c), TRUE>>,
                              <<ParentKey(USE_SCHEMA, Path_c_s), TRUE>>,
                              <<PyStr(SELECT), TRUE>> >>
        /\ (pc = "done" /\ ~dry_run /\ C20_TableAllGranted) =>
              /\ update_calls = C20_Calls
              /\ successes = <<1>>

\* C20 case: the document was parsed and applied, c.s.t was a table, the
\* three calls succeeded and the run ended.
C20_Witness ==
    /\ yaml_content = C20_Document
    /\ ~dry_run
    /\ pc = "done"
    /\ C20_TableAllGranted
    /\ Len(update_calls) = 3
    /\ grants = InitialGrants \cup
           {<<"catalog", PyStr(Path_c), "u1", USE_CATALOG>>,
            <<"schema", PyStr(Path_c_s), "u1", USE_SCHEMA>>}

\* ------------------------------------------- ServiceRequestParser on its own
\* A YAML null.
PyNone == [tag |-> "none", chars |-> <<>>, n |-> 0]

\* str(value) of a scalar, as characters (integers here have one digit).
str_of(v) ==
    IF v.tag = "str" THEN v.chars
    ELSE IF v.tag = "none" THEN <<"N","o","n","e">>
    ELSE <<ToString(v.n)>>

Whitespace == {" ", "\t", "\n"}

\* str.strip on characters.
RECURSIVE lstrip(_)
lstrip(cs) ==
    IF cs = <<>> \/ cs[1] \notin Whitespace THEN cs ELSE lstrip(Tail(cs))

RECURSIVE rstrip(_)
rstrip(cs) ==
    IF cs = <<>> \/ cs[Len(cs)] \notin Whitespace THEN cs
    ELSE rstrip(SubSeq(cs, 1, Len(cs) - 1))

strip(cs) == rstrip(lstrip(cs))

\* parse_service_request_file (lines 52-85) on the content read from the
\* file: the structure check, then _parse_yaml_content.
parse_service_request_file(content) ==
    IF ~validate_yaml_structure(content, required_keys)
    THEN MissingKeysError(missing_keys(content.pairs, required_keys))
    ELSE parse_yaml_content(content)

\* `not value or not value.strip()` (lines 211-228): TRUE or FALSE, or
\* "AttributeError" when a true value that is no string is asked to strip.
blank(value) ==
    IF ~Truthy(value) THEN "True"
    ELSE IF value.tag # "str" THEN "AttributeError"
    ELSE IF strip(value.chars) = <<>> THEN "True" ELSE "False"

\* lines 222-229, one turn of the loop: the fields tested, in order, each
\* with the message appended when it is blank.
item_checks(k, request_item) ==
    << [value |-> request_item.resource,
        message |-> "Request item " \o ToString(k) \o ": resource cannot be empty"],
       [value |-> request_item.principal.type,
        message |-> "Request item " \o ToString(k)
                        \o ": principal type cannot be empty"],
       [value |-> request_item.principal.id,
        message |-> "Request item " \o ToString(k)
                        \o ": principal id cannot be empty"] >>

RECURSIVE all_item_checks(_, _)
all_item_checks(k, requests) ==
    IF requests = <<>> THEN <<>>
    ELSE item_checks(k, requests[1]) \o all_item_checks(k + 1, Tail(requests))

\* lines 211-215, then the loop of lines 222-229 (enumerate counts from 0).
field_checks(request) ==
    << [value |-> request.name,
        message |-> "Service request name cannot be empty"],
       [value |-> request.request_type,
        message |-> "Service request type cannot be empty"] >>

NoItemsMessage == "Service request must have at least one request item"

\* validate_service_request (lines 197-230): the list of messages, or the
\* AttributeError of the first test that raises.
validate_service_request(request) ==
    LET head == field_checks(request)
        rest == all_item_checks(0, request.requests)
        said(checks) ==
            LET hit == SelectSeq(checks, LAMBDA c : blank(c.value) = "True")
            IN [k \in 1..Len(hit) |-> hit[k].message]
    IN IF \E k \in 1..Len(head \o rest) :
              blank((head \o rest)[k].value) = "AttributeError"
       THEN Raises("AttributeError")
       ELSE Returns(said(head)
                    \o (IF request.requests = <<>> THEN <<NoItemsMessage>> ELSE <<>>)
                    \o said(rest))

\* A variant of list_of_set that keeps every occurrence.
list_of_set_keeps_repeats(values) == {values}

\* list({...}) (lines 246-248): the distinct values, each once, in an order
\* the language leaves open.
list_of_set(values) ==
    LET distinct == {values[k] : k \in 1..Len(values)}
    IN {s \in [1..Cardinality(distinct) -> distinct] :
           \A x \in distinct : \E k \in 1..Cardinality(distinct) : s[k] = x}

RECURSIVE flatten(_)
flatten(lists) ==
    IF lists = <<>> THEN <<>> ELSE lists[1] \o flatten(Tail(lists))

\* The comprehensions of lines 246-248, before the set is taken.
summary_resources(request) ==
    [k \in 1..Len(request.requests) |-> request.requests[k].resource]
summary_principals(request) ==
    [k \in 1..Len(request.requests) |->
        str_of(request.requests[k].principal.type) \o <<":">>
            \o str_of(request.requests[k].principal.id)]
summary_privileges(request) ==
    flatten([k \in 1..Len(request.requests) |-> request.requests[k].privileges])

\* get_service_request_summary (lines 232-250), without file_info: every
\* summary the call can return.
get_service_request_summary(request) ==
    {[name |-> request.name,
      type |-> request.request_type,
      total_requests |-> Len(request.requests),
      resources |-> r, principals |-> p, privileges |-> v] :
        r \in list_of_set(summary_resources(request)),
        p \in list_of_set(summary_principals(request)),
        v \in list_of_set(summary_privileges(request))}

\* The caller parses the content of one file.
ParseFile ==
    /\ parser_call.state = "called"
    /\ LET out == parse_service_request_file(yaml_content) IN
          /\ parser_call' =
                 [state |-> IF out.exc = "None" THEN "parsed" ELSE "raised",
                  result |-> out]
          /\ service_request' = IF out.exc = "None" THEN out.val ELSE service_request
    /\ UNCHANGED <<yaml_content, dry_run, pc, i, is_add_operation,
                   validation_results, visited, validation_log, errors,
                   successes>>
    /\ UNCHANGED <<github_vars, validate_call, resolver_vars, reconciler_vars>>

\* The caller validates the ServiceRequest parsed.
ValidateRequest ==
    /\ parser_call.state = "parsed"
    /\ LET out == validate_service_request(service_request) IN
          parser_call' =
              [state |-> IF out.exc = "None" THEN "validated"
                         ELSE "validate raised",
               result |-> out]
    /\ UNCHANGED <<github_vars, validate_call, resolver_vars, orchestrator_vars,
                   reconciler_vars>>

\* The caller summarises the ServiceRequest parsed.
Summarize ==
    /\ parser_call.state = "parsed"
    /\ \E summary \in get_service_request_summary(service_request) :
          parser_call' = [state |-> "summarized", result |-> Returns(summary)]
    /\ UNCHANGED <<github_vars, validate_call, resolver_vars, orchestrator_vars,
                   reconciler_vars>>

\* ------------------------------------------------------ documents to parse
user == <<"u","s","e","r">>
u1 == <<"u","1">>

ParsePrincipal(type, id) == YDict(<< <<"type", type>>, <<"id", id>> >>)

ParseItem(principal, resource, privileges) ==
    YDict(<< <<"principal", principal>>, <<"resource", resource>>,
             <<"privileges", privileges>> >>)

\* Items the parser accepts: privileges as a list, a string, absent, an
\* integer, a mapping; fields that are empty, blank, or no string.
GoodParseItems ==
    { ParseItem(ParsePrincipal(PyStr(user), PyStr(u1)), PyStr(Path_c_s_t),
                YList(<<PyStr(SELECT)>>)),
      ParseItem(ParsePrincipal(PyStr(user), PyStr(u1)), PyStr(Path_c_s_t),
                PyStr(SELECT)),
      YDict(<< <<"principal", ParsePrincipal(PyStr(user), PyStr(u1))>>,
               <<"resource", PyStr(Path_c)>> >>),
      ParseItem(ParsePrincipal(PyStr(<<>>), PyStr(u1)), PyStr(<<>>), PyInt(7)),
      ParseItem(ParsePrincipal(PyStr(<<" ">>), PyNone), PyStr(<<" ", " ">>),
                YDict(<< <<"SELECT", PyStr(<<"y">>)>> >>)),
      ParseItem(ParsePrincipal(PyStr(user), PyStr(u1)), PyInt(5),
                YList(<<PyStr(MODIFY), PyStr(SELECT)>>)) }

\* Items the parser refuses: no mapping, a required key missing, a
\* principal that is no mapping or lacks type or id.
BadParseItems ==
    { PyStr(Path_c),
      YDict(<< <<"resource", PyStr(Path_c)>>,
               <<"privileges", YList(<<PyStr(SELECT)>>)>> >>),
      YDict(<< <<"principal", ParsePrincipal(PyStr(user), PyStr(u1))>>,
               <<"privileges", YList(<<PyStr(SELECT)>>)>> >>),
      ParseItem(PyStr(u1), PyStr(Path_c), YList(<<PyStr(SELECT)>>)),
      ParseItem(YDict(<< <<"type", PyStr(user)>> >>), PyStr(Path_c),
                YList(<<PyStr(SELECT)>>)),
      ParseItem(YDict(<< <<"id", PyStr(u1)>> >>), PyStr(Path_c),
                YList(<<PyStr(SELECT)>>)) }

ParseItems == GoodParseItems \cup BadParseItems

RequiredKeySet == {required_keys[k] : k \in 1..Len(required_keys)}

\* A document holding the required keys named, with the values given.
ParseDocument(keys, name, request_type, requests) ==
    YDict(SelectSeq(<< <<"request-name", name>>,
                       <<"request-type", request_type>>,
                       <<"request-status", PyStr(active)>>,
                       <<"requests", requests>> >>,
                    LAMBDA pair : pair[1] \in keys))

OneGoodItem ==
    YList(<<ParseItem(ParsePrincipal(PyStr(user), PyStr(u1)), PyStr(Path_c_s_t),
                      YList(<<PyStr(SELECT)>>))>>)

OneBlankItem ==
    YList(<<ParseItem(ParsePrincipal(PyStr(<<" ">>), PyNone), PyStr(<<" ", " ">>),
                      YList(<<>>))>>)

\* Every subset of the required keys; every list of up to MaxItems items and
\* two values that are no list; names and types empty, blank, no string.
ParseDocuments ==
    {ParseDocument(keys, PyStr(<<"R">>), PyStr(access), OneGoodItem) :
        keys \in SUBSET RequiredKeySet}
    \cup
    {ParseDocument(RequiredKeySet, PyStr(<<"R">>), PyStr(access), requests) :
        requests \in {PyStr(Path_c), YDict(<<>>)}
                     \cup {YList(items) : items \in SeqsUpTo(ParseItems, MaxItems)}}
    \cup
    {ParseDocument(RequiredKeySet, name, request_type, requests) :
        name \in {PyStr(<<"R">>), PyStr(<<>>), PyStr(<<" ">>), PyInt(5)},
        request_type \in {PyStr(access), PyNone},
        requests \in {YList(<<>>), OneGoodItem, OneBlankItem}}

InitParse ==
    /\ validate_call = IdleValidate
    /\ ResolverIdle
    /\ GitHubIdle
    /\ ReconcilerIdle
    /\ yaml_content \in ParseDocuments
    /\ service_request = NoRequest
    /\ dry_run = FALSE
    /\ pc = "idle"
    /\ i = 0
    /\ is_add_operation = FALSE
    /\ validation_results = NoValidation
    /\ visited = <<>>
    /\ validation_log = <<>>
    /\ errors = <<>>
    /\ successes = <<>>
    /\ parser_call = [state |-> "called", result |-> Returns(FALSE)]

NextParse == ParseFile \/ ValidateRequest \/ Summarize

SpecParse == InitParse /\ [][NextParse]_vars

\* ------------------------------------------------------------ parser claims
\* The required top-level keys the document parsed does not hold.
AbsentKeys == {key \in RequiredKeySet : ~HasKey(yaml_content.pairs, key)}

\* The parse has returned or raised, and nothing was called after it.
ParseDone == parser_call.state \in {"parsed", "raised"}

\* The value the document holds under `requests`, and its items.
RequestsValue == DictGet(yaml_content.pairs, "requests", NoDocument)

\* C21: a document that lacks at least one of the four required top-level
\* keys makes the parse fail with an error whose list of missing keys holds
\* exactly the required keys absent from the document, each once, and no
\* ServiceRequest is returned.
C21_MissingKeysReported ==
    (ParseDone /\ AbsentKeys # {}) =>
        /\ parser_call.state = "raised"
        /\ parser_call.result.exc = "ValueError"
        /\ {parser_call.result.missing_keys[k] :
               k \in 1..Len(parser_call.result.missing_keys)} = AbsentKeys
        /\ Len(parser_call.result.missing_keys) = Cardinality(AbsentKeys)
        /\ service_request = NoRequest

\* A parse has failed on a document that lacks two of the required keys.
C21_Witness ==
    /\ parser_call.state = "raised"
    /\ Cardinality(AbsentKeys) = 2

\* An item of the document the parser refuses.
Refused(item) ==
    \/ item.tag # "dict"
    \/ ~HasKey(item.pairs, "principal")
    \/ ~HasKey(item.pairs, "resource")
    \/ LET principal == DictGet(item.pairs, "principal", NoDocument)
       IN \/ principal.tag # "dict"
          \/ ~HasKey(principal.pairs, "type")
          \/ ~HasKey(principal.pairs, "id")

Malformed ==
    \/ RequestsValue.tag # "list"
    \/ \E k \in 1..Len(RequestsValue.items) : Refused(RequestsValue.items[k])

\* C22: with all four top-level keys present, the parse fails and returns
\* no ServiceRequest when requests is no sequence, or an element is no map,
\* or an item lacks principal or resource, or a principal is no map holding
\* both type and id; and it succeeds when none of these holds.
C22_FailsExactlyWhenMalformed ==
    (ParseDone /\ AbsentKeys = {}) =>
        IF Malformed
        THEN /\ parser_call.state = "raised"
             /\ parser_call.result.exc = "ValueError"
             /\ service_request = NoRequest
        ELSE /\ parser_call.state = "parsed"
             /\ service_request = parser_call.result.val
             /\ Len(service_request.requests) = Len(RequestsValue.items)

\* A parse has failed on a list whose first item is accepted and whose
\* second item is refused.
C22_Witness ==
    /\ parser_call.state = "raised"
    /\ AbsentKeys = {}
    /\ RequestsValue.tag = "list"
    /\ Len(RequestsValue.items) = 2
    /\ ~Refused(RequestsValue.items[1])
    /\ Refused(RequestsValue.items[2])

\* A value YAML writes without brackets or braces.
Scalar(value) == value.tag \in {"str", "int", "none"}

\* The parse of a well-formed document has returned.
Parsed == parser_call.state = "parsed"

\* C23 as stated: the privileges of a parsed item are empty when the key is
\* absent, the one-element sequence of the value when the value is a bare
\* scalar, the given sequence when it is a sequence, empty otherwise.
C23_Original_ScalarWrapped ==
    Parsed =>
        \A k \in 1..Len(RequestsValue.items) :
            LET item == RequestsValue.items[k]
                given == DictGet(item.pairs, "privileges", NoDocument)
                privileges == service_request.requests[k].privileges
            IN IF ~HasKey(item.pairs, "privileges") THEN privileges = <<>>
               ELSE IF Scalar(given) THEN privileges = <<given>>
               ELSE IF given.tag = "list" THEN privileges = given.items
               ELSE privileges = <<>>

\* C23: the privileges of a parsed item are the one-element sequence of the
\* value when the value is a string, the given sequence in input order
\* when it is a sequence, and empty when the key is absent or the value has
\* any other shape, an integer included.
C23_StringWrapped ==
    Parsed =>
        \A k \in 1..Len(RequestsValue.items) :
            LET item == RequestsValue.items[k]
                given == DictGet(item.pairs, "privileges", NoDocument)
                privileges == service_request.requests[k].privileges
            IN IF ~HasKey(item.pairs, "privileges") THEN privileges = <<>>
               ELSE IF given.tag = "str" THEN privileges = <<given>>
               ELSE IF given.tag = "list" THEN privileges = given.items
               ELSE privileges = <<>>

\* A parsed item whose privileges were written as an integer has none.
C23_Witness ==
    /\ Parsed
    /\ \E k \in 1..Len(RequestsValue.items) :
          /\ DictGet(RequestsValue.items[k].pairs, "privileges", NoDocument).tag
                 = "int"
          /\ service_request.requests[k].privileges = <<>>

\* The listing holds every one of the values exactly once, and nothing else.
EachOnce(listing, values) ==
    /\ \A k \in 1..Len(values) :
          Cardinality({j \in 1..Len(listing) : listing[j] = values[k]}) = 1
    /\ \A j \in 1..Len(listing) : \E k \in 1..Len(values) : listing[j] = values[k]

\* What the items of the document parsed name: resources, principals as
\* "type:id", privileges after their coercion to a list.
DocumentResources ==
    [k \in 1..Len(RequestsValue.items) |->
        DictGet(RequestsValue.items[k].pairs, "resource", NoDocument)]

DocumentPrincipals ==
    [k \in 1..Len(RequestsValue.items) |->
        LET principal == DictGet(RequestsValue.items[k].pairs, "principal", NoDocument)
        IN str_of(DictGet(principal.pairs, "type", NoDocument)) \o <<":">>
               \o str_of(DictGet(principal.pairs, "id", NoDocument))]

DocumentPrivileges ==
    flatten([k \in 1..Len(service_request.requests) |->
                service_request.requests[k].privileges])

\* C24: the summary of a parsed document counts every item in
\* total_requests, repeats included, and lists in resources, principals
\* ("type:id") and privileges every value some item names exactly once.
C24_SummaryCountsAndDistinct ==
    parser_call.state = "summarized" =>
        LET summary == parser_call.result.val IN
            /\ summary.total_requests = Len(RequestsValue.items)
            /\ EachOnce(summary.resources, DocumentResources)
            /\ EachOnce(summary.principals, DocumentPrincipals)
            /\ EachOnce(summary.privileges, DocumentPrivileges)

\* A summary of two items that name the same resource, principal and
\* privilege counts two requests and lists one of each.
C24_Witness ==
    /\ parser_call.state = "summarized"
    /\ Len(RequestsValue.items) = 2
    /\ DocumentResources[1] = DocumentResources[2]
    /\ parser_call.result.val.total_requests = 2
    /\ Len(parser_call.result.val.resources) = 1
    /\ Len(parser_call.result.val.principals) = 1
    /\ Len(parser_call.result.val.privileges) = 1

\* A field the validator finds empty: a false value, or a string of
\* nothing but whitespace.
Empty(value) ==
    \/ ~Truthy(value)
    \/ /\ value.tag = "str"
       /\ \A k \in 1..Len(value.chars) : value.chars[k] \in Whitespace

\* How many of an item's three fields are empty.
EmptyFields(request_item) ==
    Cardinality({f \in {"resource", "type", "id"} :
        Empty(IF f = "resource" THEN request_item.resource
              ELSE IF f = "type" THEN request_item.principal.type
              ELSE request_item.principal.id)})

RECURSIVE SumEmptyFields(_)
SumEmptyFields(requests) ==
    IF requests = <<>> THEN 0
    ELSE EmptyFields(requests[1]) + SumEmptyFields(Tail(requests))

\* The number of constraints the ServiceRequest parsed violates.
Violations ==
    (IF Empty(service_request.name) THEN 1 ELSE 0)
    + (IF Empty(service_request.request_type) THEN 1 ELSE 0)
    + (IF service_request.requests = <<>> THEN 1 ELSE 0)
    + SumEmptyFields(service_request.requests)

\* C25: validate_service_request never raises, and returns one message for
\* each violated constraint: an empty name, an empty request type, no
\* items, and per item an empty resource, principal type or principal id;
\* the list is empty exactly when no constraint is violated.
C25_CollectsNeverRaises ==
    /\ parser_call.state # "validate raised"
    /\ parser_call.state = "validated" =>
           Len(parser_call.result.val) = Violations

\* ---------------------------------------------------------- GitHubIntegration
\* os.getenv on the environment kept as (name, value) pairs; an unset name
\* gives the default.
getenv(key, default) == DictGet(environ, key, default)

\* str.splitlines on characters, lines ending at "\n".
RECURSIVE splitlines(_)
splitlines(cs) ==
    IF cs = <<>> THEN <<>>
    ELSE IF \A k \in 1..Len(cs) : cs[k] # "\n" THEN <<cs>>
    ELSE LET k == CHOOSE j \in 1..Len(cs) :
                      /\ cs[j] = "\n"
                      /\ \A h \in 1..(j - 1) : cs[h] # "\n"
         IN <<SubSeq(cs, 1, k - 1)>> \o splitlines(SubSeq(cs, k + 1, Len(cs)))

\* lines 206 and 229: [line.strip() for line in stdout.splitlines() if line.strip()]
stripped_lines(stdout) ==
    LET lines == splitlines(stdout)
        kept == SelectSeq(lines, LAMBDA line : strip(line) # <<>>)
    IN [k \in 1..Len(kept) |-> strip(kept[k])]

\* lines 188-192: the references tried, in order.
branch_refs_of(base_branch) ==
    <<"origin/" \o base_branch, base_branch, "upstream/" \o base_branch>>

\* One subprocess.run as the log keeps it: the command and whether it
\* exited with status 0.
GitCall(argv, ok) == [argv |-> argv, ok |-> ok]

\* get_changed_files_from_env (lines 249-271) up to its call of
\* get_changed_files_from_git: outside GitHub Actions it returns the empty
\* list and runs nothing.
GetChangedFilesFromEnv ==
    /\ ghpc = "called"
    /\ changed_files' = <<>>
    /\ IF getenv("GITHUB_ACTIONS", "") # ""
       THEN /\ branch_refs' = branch_refs_of(getenv("GITHUB_BASE_REF", "main"))
            /\ ghpc' = "diff"
       ELSE /\ ghpc' = "returned"
            /\ UNCHANGED branch_refs
    /\ UNCHANGED <<environ, git_repo, git_calls>>
    /\ UNCHANGED <<parser_vars, validate_call, resolver_vars, orchestrator_vars,
                   reconciler_vars>>

\* get_changed_files_from_git, one turn of the loop (lines 194-214): the
\* diff against the next reference; its stripped lines are returned when
\* it succeeds, the next reference is tried when it fails.
GitDiff ==
    /\ ghpc = "diff"
    /\ branch_refs # <<>>
    /\ LET branch_ref == Head(branch_refs)
           ok == branch_ref \in git_repo.diff_ok
       IN /\ git_calls' =
                 Append(git_calls,
                        GitCall(<<"git", "diff", "--name-only",
                                  branch_ref \o "...HEAD">>, ok))
          /\ IF ok
             THEN /\ changed_files' = stripped_lines(git_repo.stdout)
                  /\ ghpc' = "returned"
                  /\ UNCHANGED branch_refs
             ELSE /\ branch_refs' = Tail(branch_refs)
                  /\ ghpc' = IF Tail(branch_refs) = <<>> THEN "ls_files" ELSE "diff"
                  /\ UNCHANGED changed_files
    /\ UNCHANGED <<environ, git_repo>>
    /\ UNCHANGED <<parser_vars, validate_call, resolver_vars, orchestrator_vars,
                   reconciler_vars>>

\* The fallback (lines 216-247): every tracked file; when that fails too
\* the CalledProcessError raised is caught by get_changed_files_from_env
\* (lines 268-269), which returns the empty list.
GitLsFiles ==
    /\ ghpc = "ls_files"
    /\ git_calls' = Append(git_calls,
                           GitCall(<<"git", "ls-files">>, git_repo.ls_files_ok))
    /\ changed_files' = IF git_repo.ls_files_ok
                        THEN stripped_lines(git_repo.ls_files_stdout)
                        ELSE <<>>
    /\ ghpc' = "returned"
    /\ UNCHANGED <<environ, git_repo, branch_refs>>
    /\ UNCHANGED <<parser_vars, validate_call, resolver_vars, orchestrator_vars,
                   reconciler_vars>>

\* Environments: outside GitHub Actions, in it, the variable set but empty;
\* the base reference unset or naming a branch.
Environments ==
    {actions \o base :
        actions \in {<<>>, << <<"GITHUB_ACTIONS", "true">> >>,
                     << <<"GITHUB_ACTIONS", "">> >>},
        base \in {<<>>, << <<"GITHUB_BASE_REF", "develop">> >>,
                  << <<"GITHUB_BASE_REF", "main">> >>}}

\* The references git may know.
KnownRefs ==
    {"origin/develop", "develop", "upstream/develop",
     "origin/main", "main", "upstream/main"}

\* What a git command may print: nothing, one name, names with an empty
\* line between, a name within spaces, a blank line and no final newline.
Outputs ==
    { <<>>,
      <<"a", "\n">>,
      <<"a", "\n", "\n", "b", "\n">>,
      <<" ", "a", " ", "\n">>,
      <<" ", "\n", "b">> }

Repositories ==
    [diff_ok : SUBSET KnownRefs, stdout : Outputs, ls_files_ok : BOOLEAN,
     ls_files_stdout : {<<"a", "\n", "b", "\n", "c", "\n">>}]

InitGitHub ==
    /\ validate_call = IdleValidate
    /\ ParserIdle
    /\ ResolverIdle
    /\ OrchestratorIdle
    /\ ReconcilerIdle
    /\ environ \in Environments
    /\ git_repo \in Repositories
    /\ git_calls = <<>>
    /\ ghpc = "called"
    /\ branch_refs = <<>>
    /\ changed_files = <<>>

NextGitHub == GetChangedFilesFromEnv \/ GitDiff \/ GitLsFiles

SpecGitHub == InitGitHub /\ [][NextGitHub]_vars

\* The lines of a git command's output that hold a name, without the
\* whitespace around it.
NamesIn(stdout) ==
    LET lines == splitlines(stdout)
        named == SelectSeq(lines, LAMBDA line :
                     \E k \in 1..Len(line) : line[k] \notin Whitespace)
    IN [k \in 1..Len(named) |-> strip(named[k])]

\* C26: in GitHub Actions, when a git diff has succeeded,
\* get_changed_files_from_env has run exactly one git command,
\* git diff --name-only <GITHUB_BASE_REF>...HEAD with the base reference as
\* the environment gives it, and returns the non-empty lines of its output.
C26_OneDiffAgainstBaseRef ==
    ( /\ ghpc = "returned"
      /\ getenv("GITHUB_ACTIONS", "") # ""
      /\ \E k \in 1..Len(git_calls) :
            git_calls[k].argv[2] = "diff" /\ git_calls[k].ok ) =>
        /\ Len(git_calls) = 1
        /\ git_calls[1].argv =
               <<"git", "diff", "--name-only",
                 getenv("GITHUB_BASE_REF", "main") \o "...HEAD">>
        /\ changed_files = NamesIn(git_repo.stdout)

\* ------------------------------------------- reconciler: order and no-ops
\* Where a grants.update call stands in the order of one reconcile.
Rank(call) ==
    IF call.site = "main" THEN 3
    ELSE IF call.securable_type = "catalog" THEN 1
    ELSE 2

\* C27: within one reconcile that adds to a Table, View, Function or
\* Volume, the calls are issued in the order USE_CATALOG on the catalog,
\* USE_SCHEMA on the schema, the main grant on the resource: each kind at
\* most once, and the main call never before an ancestor call.
C27_AncestorsBeforeMain ==
    AddToLeafType =>
        /\ \A m, n \in 1..Len(update_calls) :
              m < n => Rank(update_calls[m]) < Rank(update_calls[n])
        /\ \A n \in 1..Len(update_calls) :
              /\ Rank(update_calls[n]) = 1 =>
                    Asked(update_calls[n]) = AskUseCatalog
              /\ Rank(update_calls[n]) = 2 =>
                    Asked(update_calls[n]) = AskUseSchema
              /\ Rank(update_calls[n]) = 3 =>
                    update_calls[n].full_name = grant_args.resource_name
        /\ MainCalls # <<>> => gpc = "returned"

\* SELECT was added on the table c.s.t: three calls, on the catalog, on the
\* schema, on the table.
C27_Witness ==
    /\ gpc = "returned"
    /\ AddToLeafType
    /\ grant_args.resource_name = PyStr(Path_c_s_t)
    /\ Len(update_calls) = 3
    /\ Rank(update_calls[1]) = 1
    /\ Rank(update_calls[2]) = 2
    /\ Rank(update_calls[3]) = 3

\* No requested privilege validates against the type of the request.
NoneValid == \A q \in Requested : ~Passes(q)

\* C28 as stated: when no privilege of the request is valid for the type,
\* no grants.update call of any kind is made, on the resource or on its
\* catalog or schema, for every type and both values of is_add.
C28_Original_NoCallAtAll ==
    NoneValid => update_calls = <<>>

\* C28: when no privilege of the request is valid for the type, no
\* grants.update call is made on the resource; the only calls made are the
\* USE_CATALOG and USE_SCHEMA grants on its ancestors, which an add to a
\* Table, View, Function or Volume attempts before it validates anything.
\* For every other type, and when removing, no call is made at all.
C28_NoMainCallWhenNoneValid ==
    NoneValid =>
        /\ MainCalls = <<>>
        /\ ~AddToLeafType => update_calls = <<>>
        /\ PastParents => C11_ParentGrants

\* BOGUS alone was added on the table c.s.t: both ancestor grants were
\* attempted, no call was made on the table.
C28_Witness ==
    /\ gpc = "returned"
    /\ NoneValid
    /\ grant_args.privileges = <<PyStr(BOGUS)>>
    /\ grant_args.resource_name = PyStr(Path_c_s_t)
    /\ grant_args.is_add
    /\ grant_args.object_type = TABLE
    /\ Len(ParentCalls) = 2
    /\ MainCalls = <<>>

\* ------------------------------------------ orchestrator: errors and reports
\* C29: apply_service_request_privileges never propagates an exception to
\* its caller, whatever the request status, resources and privileges of the
\* ServiceRequest are and whatever the collaborators do: it returns after
\* visiting every item.
C29_NeverPropagates ==
    /\ pc # "raised"
    /\ pc = "done" => Len(visited) = Len(service_request.requests)

\* C30: an item is reported as successfully applied or removed only if the
\* main grant call made for it succeeded; when the grants collaborator
\* raised for the item, no success is reported for it.
C30_SuccessOnlyIfGranted ==
    \A n \in 1..Len(successes) :
        \E k \in 1..Len(update_calls) :
            /\ update_calls[k].item = successes[n]
            /\ update_calls[k].site = "main"
            /\ update_calls[k].ok
====
